---- MODULE Spec2Model ----
(***************************************************************************)
(* Catalog store, price-history ledger, session cart and order ledger of   *)
(* the catalog/ordering server (server/src/db.js, routes/classes.js,       *)
(* routes/cart.js, routes/orders.js).                                      *)
(*                                                                         *)
(* JavaScript values are encoded as follows: a numeric slot holds an       *)
(* integer, Null or Undefined; a text slot holds a string, NullStr or      *)
(* UndefinedStr.  Prices are integers (minor units).                       *)
(***************************************************************************)
EXTENDS Integers, Sequences, FiniteSets, TLC

\* ------------------------------------------------------------------ bounds
MaxClasses == 2
MaxQty == 2
MaxOrderRows == 2
MaxClock == 2
MaxRows == 2

\* ------------------------------------------------------- JavaScript values
Null == -99
Undefined == -98
NullStr == "<null>"
UndefinedStr == "<undefined>"

IsNumber(v) == v # Null /\ v # Undefined
\* JavaScript truthiness of a text slot and of a numeric slot
TruthyStr(s) == s # UndefinedStr /\ s # NullStr /\ s # ""
TruthyNum(n) == n # Undefined /\ n # Null /\ n # 0
\* a || b  and  a ?? b  on text slots
OrStr(a, b) == IF TruthyStr(a) THEN a ELSE b
CoalesceStr(a, b) == IF a = UndefinedStr \/ a = NullStr THEN b ELSE a
\* node-sqlite3 binds undefined as NULL
BindNum(v) == IF v = Undefined THEN Null ELSE v
BindStr(s) == IF s = UndefinedStr THEN NullStr ELSE s

Sessions == {"A", "B"}
ClassIds == 1..MaxClasses
Prices == {Null, 10, 12}

RECURSIVE SumSeq(_)
SumSeq(s) == IF s = <<>> THEN 0 ELSE Head(s) + SumSeq(Tail(s))

VARIABLES
  classes,        \* table classes: id -> row
  nextClassId,    \* AUTOINCREMENT of classes.id
  price_history,  \* table price_history, in insertion order
  session,        \* req.session of every session: cart and cartTotal
  orders,         \* table orders: id -> row
  nextOrderRow,   \* AUTOINCREMENT of orders.id
  columnNames,    \* PRAGMA table_info(orders): the item columns the table has
  clock,          \* CURRENT_TIMESTAMP / getTurkeyTimestamp()
  accepted,       \* history variable: order_id -> the payload a 201 answered
  upload,         \* the bulk-upload request in progress: its closure variables
  updates,        \* the update requests between their SELECT and their UPDATE
  uploadsDir,     \* the video files in uploadsDir and the fs.unlink calls under way
  migration,      \* the orders migration of initializeDatabase: where it stands
  panel,          \* AdminPanel: its sheet-sync state and the sync requests in flight
  visibility,     \* AdminPanel: the column visibility shown, stored and in flight
  res             \* the last response sent

vars == <<classes, nextClassId, price_history, session, orders, nextOrderRow,
          columnNames, clock, accepted, upload, updates, uploadsDir, migration, panel,
          visibility, res>>

\* ------------------------------------------------------------ catalog store
\* CREATE TABLE classes: the columns routes/classes.js reads and writes
ClassRow(sid, cat, qual, name, ar, en, feat, price, weight, video, at) ==
  [special_id |-> sid, main_category |-> cat, quality |-> qual,
   class_name |-> name, class_name_ar |-> ar, class_name_en |-> en,
   class_features |-> feat, class_price |-> price, class_weight |-> weight,
   class_video |-> video, created_at |-> at, updated_at |-> at]

\* the result of parseClassPayload(req.body): every field a request may carry;
\* a field the request omits is undefined
EmptyPayload ==
  [specialId |-> UndefinedStr, mainCategory |-> UndefinedStr,
   quality |-> UndefinedStr, className |-> UndefinedStr,
   classNameArabic |-> UndefinedStr, classNameEnglish |-> UndefinedStr,
   classFeatures |-> UndefinedStr, classPrice |-> Undefined,
   classWeight |-> Undefined, classVideoUrl |-> UndefinedStr]

PayloadFields == DOMAIN EmptyPayload
DeleteMarker == "__DELETE__"
UploadedVideo == "/uploads/new.mp4"
ExternalVideo == "http://cdn/v.mp4"

\* the values a request may give to one field
FieldValues(f) ==
  CASE f = "specialId" -> {"", "CR01", "cr01"}
    [] f = "className" -> {"", "b"}
    [] f = "classPrice" -> Prices
    [] f = "classWeight" -> {Null, 5}
    [] f = "classVideoUrl" -> {DeleteMarker, ExternalVideo, "/uploads/v1.mp4"}
    [] OTHER -> {"b"}

\* payloads carrying exactly one field, and payloads carrying a price with one
\* more field
OneFieldPayloads ==
  {[EmptyPayload EXCEPT ![f] = v] : <<f, v>> \in
     UNION {{<<g, w>> : w \in FieldValues(g)} : g \in PayloadFields}}
UpdatePayloads ==
  {EmptyPayload} \cup OneFieldPayloads
    \cup {[p EXCEPT !.classPrice = 12] : p \in {q \in OneFieldPayloads : q.className = "b" \/ q.quality = "b"}}
\* the requests router.put receives: a payload without a file, or a file alone
UpdateRequests == (UpdatePayloads \X {FALSE}) \cup ({EmptyPayload} \X {TRUE})
CreatePayloads ==
  {EmptyPayload,
   [EmptyPayload EXCEPT !.className = "a"],
   [EmptyPayload EXCEPT !.className = "a", !.classPrice = 10],
   [EmptyPayload EXCEPT !.className = "a", !.specialId = "CR01", !.classPrice = 10,
                        !.classVideoUrl = "/uploads/v1.mp4"],
   [EmptyPayload EXCEPT !.className = "a", !.specialId = "cr01", !.mainCategory = "a",
                        !.quality = "a", !.classNameArabic = "a", !.classNameEnglish = "a",
                        !.classFeatures = "a", !.classWeight = 5]}

\* getNextSpecialId(prefix): the next free number after the largest numeric
\* suffix among the special ids that share the prefix, padded to two digits
DefaultPrefix == "CR"
SpecialIdPrefix(s) ==
  CASE s \in {"CR01", "CR02", "CR03", "CR04", "CR05"} -> "CR"
    [] s \in {"cr01"} -> "cr"
    [] OTHER -> ""
SpecialIdNumber(s) ==
  CASE s \in {"CR01", "cr01"} -> 1 [] s = "CR02" -> 2 [] s = "CR03" -> 3
    [] s = "CR04" -> 4 [] s = "CR05" -> 5 [] OTHER -> 0
FormatSpecialId(n) ==
  CASE n = 1 -> "CR01" [] n = 2 -> "CR02" [] n = 3 -> "CR03" [] n = 4 -> "CR04"
    [] OTHER -> "CR05"
MaxOf(S) == IF S = {} THEN 0 ELSE CHOOSE m \in S : \A n \in S : n <= m
getNextSpecialId(rows) ==
  FormatSpecialId(1 + MaxOf({SpecialIdNumber(rows[i].special_id) :
      i \in {j \in DOMAIN rows : SpecialIdPrefix(rows[j].special_id) = DefaultPrefix}}))

\* UNIQUE(special_id): would a row other than `id` already hold sid?
SpecialIdTaken(rows, id, sid) ==
  sid # NullStr /\ \E j \in DOMAIN rows : j # id /\ rows[j].special_id = sid

\* LOWER(special_id) / identifier.toLowerCase(), over the special ids in use
Lower(s) ==
  CASE s = "CR01" -> "cr01" [] s = "CR02" -> "cr02" [] s = "CR03" -> "cr03"
    [] s = "CR04" -> "cr04" [] s = "CR05" -> "cr05" [] OTHER -> s
\* router.get('/:identifier') for a special id: the rows the SELECT matches
MatchesIdentifier(rows, identifier) ==
  {i \in DOMAIN rows : rows[i].special_id # NullStr
                         /\ Lower(rows[i].special_id) = Lower(identifier)}

\* path.basename of the video paths in use
Basename(videoPath) ==
  CASE videoPath = "/uploads/v1.mp4" -> "v1.mp4"
    [] videoPath = UploadedVideo -> "new.mp4"
    [] videoPath = ExternalVideo -> "v.mp4"
    [] OTHER -> videoPath
\* class_video.startsWith('/uploads/')
InUploads(videoPath) == videoPath \in {"/uploads/v1.mp4", UploadedVideo}
\* videoUpload.single('classVideo'): multer has written the uploaded file
\* before the handler runs; one name stands for every uploaded file
Saved(dir, file) ==
  IF file THEN [dir EXCEPT !.files = @ \cup {Basename(UploadedVideo)}] ELSE dir
\* fs.unlink(path.join(uploadsDir, name), () => {}) has been called
Unlink(dir, names) == [dir EXCEPT !.unlinking = @ \cup names]
\* the uploaded file a failed request removes again
Discarded(dir, file) ==
  Unlink(Saved(dir, file), IF file THEN {Basename(UploadedVideo)} ELSE {})

\* a response that carries a status and a message only
Respond(status) == [op |-> "message", status |-> status]

\* router.post('/'): the row INSERT INTO classes stores for a payload
InsertedRow(rows, payload, file, now) ==
  ClassRow(IF TruthyStr(payload.specialId) THEN payload.specialId
           ELSE getNextSpecialId(rows),
           CoalesceStr(payload.mainCategory, ""),
           CoalesceStr(payload.quality, ""),
           payload.className,
           OrStr(payload.classNameArabic, NullStr),
           OrStr(payload.classNameEnglish, NullStr),
           OrStr(payload.classFeatures, NullStr),
           BindNum(payload.classPrice),
           BindNum(payload.classWeight),
           IF file THEN UploadedVideo ELSE CoalesceStr(payload.classVideoUrl, NullStr),
           now)

CreateClass(payload, file) ==
  /\ clock < MaxClock
  /\ nextClassId <= MaxClasses
  /\ IF ~TruthyStr(payload.className)
     THEN /\ res' = Respond(400)
          /\ uploadsDir' = Saved(uploadsDir, file)
          /\ UNCHANGED <<classes, nextClassId, clock>>
     ELSE LET row == InsertedRow(classes, payload, file, clock + 1) IN
          IF SpecialIdTaken(classes, 0, row.special_id)
          THEN /\ res' = Respond(500)
               /\ uploadsDir' = Discarded(uploadsDir, file)
               /\ UNCHANGED <<classes, nextClassId, clock>>
          ELSE /\ classes' = [i \in DOMAIN classes \cup {nextClassId} |->
                                IF i = nextClassId THEN row ELSE classes[i]]
               /\ nextClassId' = nextClassId + 1
               /\ clock' = clock + 1
               /\ uploadsDir' = Saved(uploadsDir, file)
               /\ res' = Respond(201)
  /\ UNCHANGED <<price_history, session, orders, nextOrderRow, columnNames, migration, updates, upload, accepted, panel, visibility>>

\* router.put('/:id'): the video path the UPDATE writes
NewVideoPath(current, payload, file) ==
  IF file THEN UploadedVideo
  ELSE IF payload.classVideoUrl # UndefinedStr
       THEN (IF payload.classVideoUrl = DeleteMarker THEN NullStr
             ELSE payload.classVideoUrl)
       ELSE current.class_video

\* router.put('/:id'): the row UPDATE classes ... WHERE id = ? leaves
UpdatedRowAllFields(current, payload, file, now) ==
  [current EXCEPT
     !.special_id = OrStr(payload.specialId, current.special_id),
     !.main_category = IF payload.mainCategory # UndefinedStr
                       THEN payload.mainCategory ELSE current.main_category,
     !.quality = IF payload.quality # UndefinedStr
                 THEN payload.quality ELSE current.quality,
     !.class_name = OrStr(payload.className, current.class_name),
     !.class_name_ar = IF payload.classNameArabic # UndefinedStr
                       THEN payload.classNameArabic ELSE current.class_name_ar,
     !.class_name_en = IF payload.classNameEnglish # UndefinedStr
                       THEN payload.classNameEnglish ELSE current.class_name_en,
     !.class_features = BindStr(payload.classFeatures),
     !.class_price = BindNum(payload.classPrice),
     !.class_weight = BindNum(payload.classWeight),
     !.class_video = NewVideoPath(current, payload, file),
     !.updated_at = now]

UpdatedRow(current, payload, file, now) ==
  [current EXCEPT
     !.special_id = OrStr(payload.specialId, current.special_id),
     !.main_category = IF payload.mainCategory # UndefinedStr
                       THEN payload.mainCategory ELSE current.main_category,
     !.quality = IF payload.quality # UndefinedStr
                 THEN payload.quality ELSE current.quality,
     !.class_name = OrStr(payload.className, current.class_name),
     !.class_name_ar = IF payload.classNameArabic # UndefinedStr
                       THEN payload.classNameArabic ELSE current.class_name_ar,
     !.class_name_en = IF payload.classNameEnglish # UndefinedStr
                       THEN payload.classNameEnglish ELSE current.class_name_en,
     !.class_features = IF payload.classFeatures # UndefinedStr
                        THEN payload.classFeatures ELSE current.class_features,
     !.class_price = IF payload.classPrice # Undefined
                     THEN payload.classPrice ELSE current.class_price,
     !.class_weight = IF payload.classWeight # Undefined
                      THEN payload.classWeight ELSE current.class_weight,
     !.class_video = NewVideoPath(current, payload, file),
     !.updated_at = now]

\* shouldRemoveOldVideo: the stored video is a file of uploadsDir that the
\* update replaced or removed
ShouldRemoveOldVideo(current, payload, file) ==
  /\ TruthyStr(current.class_video)
  /\ InUploads(current.class_video)
  /\ \/ file
     \/ NewVideoPath(current, payload, file) = NullStr
     \/ payload.classVideoUrl # UndefinedStr
          /\ payload.classVideoUrl # current.class_video
OldVideo(current, payload, file) ==
  IF ShouldRemoveOldVideo(current, payload, file)
  THEN {Basename(current.class_video)} ELSE {}

UpdateClass(id, payload, file) ==
  /\ clock < MaxClock
  /\ IF id \notin DOMAIN classes
     THEN /\ res' = Respond(404)
          /\ uploadsDir' = Discarded(uploadsDir, file)
          /\ UNCHANGED <<classes, clock>>
     ELSE LET row == UpdatedRow(classes[id], payload, file, clock + 1) IN
          IF SpecialIdTaken(classes, id, row.special_id)
          THEN /\ res' = Respond(500)
               /\ uploadsDir' = Discarded(uploadsDir, file)
               /\ UNCHANGED <<classes, clock>>
          ELSE /\ classes' = [classes EXCEPT ![id] = row]
               /\ clock' = clock + 1
               /\ uploadsDir' = Unlink(Saved(uploadsDir, file),
                                       OldVideo(classes[id], payload, file))
               /\ res' = Respond(200)
  /\ UNCHANGED <<nextClassId, price_history, session, orders, nextOrderRow,
                 columnNames, migration, updates, upload, accepted, panel, visibility>>

\* router.put('/:id') in its two steps: the requests that may be in flight
Requests == {"r1", "r2"}
NoRequest == [state |-> "idle", id |-> 0, payload |-> EmptyPayload,
              current |-> ClassRow("", "", "", "", "", "", "", Null, Null, "", 0)]
\* the fields two editors change at the same time
ConcurrentPayloads ==
  {[EmptyPayload EXCEPT !.classPrice = 10],
   [EmptyPayload EXCEPT !.classWeight = 5],
   [EmptyPayload EXCEPT !.className = "b", !.classPrice = Null]}

\* db.get('SELECT * FROM classes WHERE id = ?') and the head of its callback:
\* the request holds the row it read
ReadForUpdate(r, id, payload) ==
  /\ updates[r].state = "idle"
  /\ IF id \notin DOMAIN classes
     THEN /\ res' = Respond(404)
          /\ updates' = [updates EXCEPT ![r].state = "done"]
     ELSE /\ updates' = [updates EXCEPT ![r] =
                [state |-> "read", id |-> id, payload |-> payload,
                 current |-> classes[id]]]
          /\ UNCHANGED res
  /\ UNCHANGED <<classes, nextClassId, price_history, session, orders,
                 nextOrderRow, columnNames, migration, uploadsDir, clock, accepted, upload, panel, visibility>>

\* updateStmt.run(...) of a request that has read its row, and its callback
WriteUpdate(r) ==
  /\ updates[r].state = "read"
  /\ clock < MaxClock
  /\ LET id == updates[r].id
         \* every column is bound from the payload or from the row read
         row == UpdatedRow(updates[r].current, updates[r].payload, FALSE, clock + 1)
     IN IF SpecialIdTaken(classes, id, row.special_id)
        THEN /\ res' = Respond(500)
             /\ UNCHANGED <<classes, clock>>
        ELSE /\ classes' = [i \in DOMAIN classes |-> IF i = id THEN row ELSE classes[i]]
             /\ clock' = clock + 1
             /\ res' = Respond(200)
  /\ updates' = [updates EXCEPT ![r].state = "done"]
  /\ UNCHANGED <<nextClassId, price_history, session, orders, nextOrderRow,
                 columnNames, migration, uploadsDir, accepted, upload, panel, visibility>>

\* router.post('/bulk-upload'): the parsed record of a sheet row
BulkRecord(sid, price) ==
  [specialId |-> sid, mainCategory |-> "a", quality |-> "a", className |-> "a",
   classNameArabic |-> "", classNameEnglish |-> "", classFeatures |-> "",
   classPrice |-> price, classWeight |-> Null, classVideo |-> NullStr]
BulkRecords ==
  {BulkRecord(sid, 10) : sid \in {"CR01", "CR03"}} \cup {BulkRecord("CR01", Null)}

\* the values both statements of the bulk upload bind, in a row
BulkRow(existing, record, now) ==
  [existing EXCEPT
     !.special_id = record.specialId,
     !.main_category = CoalesceStr(record.mainCategory, ""),
     !.quality = CoalesceStr(record.quality, ""),
     !.class_name = IF TruthyStr(record.className) THEN record.className
                    ELSE existing.class_name,
     !.class_name_ar = OrStr(record.classNameArabic, NullStr),
     !.class_name_en = OrStr(record.classNameEnglish, NullStr),
     !.class_features = OrStr(record.classFeatures, NullStr),
     !.class_price = record.classPrice,
     !.class_weight = record.classWeight,
     !.class_video = OrStr(record.classVideo, NullStr),
     !.updated_at = now]

\* router.post('/bulk-upload') for a sheet of one data row that has a special
\* id, from the request to its answer: the row whose special_id matches is
\* overwritten, a new special_id is inserted unless updateOnly
BulkUpload(record, updateOnly) ==
  LET matching == {i \in DOMAIN classes : classes[i].special_id = record.specialId}
      blank == ClassRow("", "", "", "", NullStr, NullStr, NullStr, Null, Null,
                        NullStr, clock + 1)
  IN
  /\ clock < MaxClock
  /\ TruthyStr(record.specialId)
  /\ IF matching # {}
     THEN /\ classes' = [i \in DOMAIN classes |->
                           IF i \in matching
                           THEN BulkRow(classes[i], record, clock + 1)
                           ELSE classes[i]]
          /\ clock' = clock + 1
          /\ res' = [op |-> "bulk", status |-> 200, processedCount |-> 1]
          /\ UNCHANGED nextClassId
     ELSE IF updateOnly
     THEN /\ res' = [op |-> "bulk", status |-> 200, processedCount |-> 0]
          /\ UNCHANGED <<classes, nextClassId, clock>>
     ELSE /\ nextClassId <= MaxClasses
          /\ classes' = [i \in DOMAIN classes \cup {nextClassId} |->
                           IF i = nextClassId THEN BulkRow(blank, record, clock + 1)
                           ELSE classes[i]]
          /\ nextClassId' = nextClassId + 1
          /\ clock' = clock + 1
          /\ res' = [op |-> "bulk", status |-> 200, processedCount |-> 1]
  /\ UNCHANGED <<price_history, session, orders, nextOrderRow, columnNames, migration, uploadsDir, updates, upload, accepted, panel, visibility>>

\* ------------------------------------------------- bulk upload, row by row
\* what parseClassPayload makes of a sheet row: a record, or an exception
Parsed(record) == [throws |-> FALSE, parsed |-> record]
Thrown == [throws |-> TRUE, parsed |-> BulkRecord("", Null)]
SheetRows ==
  {Thrown} \cup {Parsed(BulkRecord(sid, 10)) : sid \in {"", "CR02", "CR03"}}
           \cup {Parsed(BulkRecord("CR03", 12))}
\* XLSX.utils.sheet_to_json(sheet): the data rows of the first sheet
Sheets == UNION {[1..n -> SheetRows] : n \in 0..MaxRows}
\* the request: no file, a file XLSX cannot read, or a sheet
UploadRequests ==
  {[file |-> f, rows |-> <<>>, updateOnly |-> FALSE] : f \in {"none", "unreadable"}}
    \cup [file : {"sheet"}, rows : Sheets, updateOnly : BOOLEAN]

\* the reasons a row is skipped for
SpecialIdRequired == "Special ID is required."
ParseFailed == "error.message"
LookupFailed == "Database error: getErr.message"
StatementFailed == "err.message"
UniqueFailed == "UNIQUE constraint failed: classes.special_id"
UpdateOnlyNotFound == "Record not found (update only mode)."
SkipEntry(k, reason) == [index |-> k + 1, reason |-> reason]

\* no bulk upload has been received; `before` is a history field, the catalog
\* the request found
NoUpload ==
  [active |-> FALSE, updateOnly |-> FALSE, rows |-> <<>>, queue |-> <<>>,
   running |-> {}, pendingOperations |-> 0, processed |-> <<>>,
   skipped |-> <<>>, responded |-> FALSE, before |-> <<>>]

\* rows.forEach: the rows that reach db.get, in sheet order
Reaches(row) == ~row.throws /\ TruthyStr(row.parsed.specialId)
QueuedRowsUntilBad(rows) ==
  SelectSeq([k \in 1..Len(rows) |-> k],
            LAMBDA k : \A j \in 1..k : Reaches(rows[j]))
QueuedRows(rows) ==
  SelectSeq([k \in 1..Len(rows) |-> k], LAMBDA k : Reaches(rows[k]))
\* rows.forEach: the rows skipped before any statement is issued
SkippedAtOnce(rows) ==
  LET bad == SelectSeq([k \in 1..Len(rows) |-> k], LAMBDA k : ~Reaches(rows[k]))
  IN [i \in DOMAIN bad |->
        SkipEntry(bad[i], IF rows[bad[i]].throws THEN ParseFailed
                          ELSE SpecialIdRequired)]

\* res.json({ processedCount, skippedCount, skipped })
Report(up) ==
  [op |-> "bulk", status |-> 200, processedCount |-> Len(up.processed),
   skippedCount |-> Len(up.skipped), skipped |-> up.skipped]

\* a row ends: pendingOperations -= 1, and the answer goes out at once
SkipAnswers(up, k, reason) ==
  [up EXCEPT !.skipped = Append(@, SkipEntry(k, reason)),
             !.pendingOperations = @ - 1,
             !.responded = TRUE]

\* a row ends: pendingOperations -= 1, and the answer goes out at 0
Skip(up, k, reason) ==
  [up EXCEPT !.skipped = Append(@, SkipEntry(k, reason)),
             !.pendingOperations = @ - 1,
             !.responded = (up.pendingOperations = 1)]
Processed(up, k, action) ==
  [up EXCEPT !.processed = Append(@, [parsed |-> up.rows[k].parsed,
                                       action |-> action]),
             !.pendingOperations = @ - 1,
             !.responded = (up.pendingOperations = 1)]

\* router.post('/bulk-upload') up to the end of rows.forEach
BeginUpload(req) ==
  /\ ~upload.active
  /\ IF req.file = "none"
     THEN /\ res' = Respond(400)
          /\ UNCHANGED <<upload, clock>>
     ELSE IF req.file = "unreadable"
     THEN /\ res' = Respond(500)
          /\ UNCHANGED <<upload, clock>>
     ELSE IF Len(req.rows) = 0
     THEN /\ res' = Respond(400)
          /\ UNCHANGED <<upload, clock>>
     ELSE /\ upload' = [active |-> TRUE, updateOnly |-> req.updateOnly,
                        rows |-> req.rows, queue |-> QueuedRows(req.rows),
                        running |-> {},
                        pendingOperations |-> Len(QueuedRows(req.rows)),
                        processed |-> <<>>, skipped |-> SkippedAtOnce(req.rows),
                        responded |-> FALSE, before |-> classes]
          /\ clock' = clock + 1
          /\ UNCHANGED res
  /\ UNCHANGED <<classes, nextClassId, price_history, session, orders,
                 nextOrderRow, columnNames, migration, uploadsDir, updates, accepted, panel, visibility>>

\* db.serialize: every db.get is issued in serialized mode, it starts when no
\* statement of the connection is pending; the statement a callback runs is
\* pending from the moment the callback issues it
MayLookupAtOnce(up) == TRUE
MayLookup(up) == up.running = {}

\* the branch the db.get callback takes
LookupOutcomeUpsert(existing, updateOnly) ==
  IF existing # {} THEN "update" ELSE "insert"
LookupOutcome(existing, updateOnly) ==
  IF existing # {} THEN "update" ELSE IF updateOnly THEN "skip" ELSE "insert"

\* db.get('SELECT id, class_name FROM classes WHERE special_id = ?') and its
\* callback, for the next row in the queue
LookupRow(getErr) ==
  /\ upload.active
  /\ upload.queue # <<>>
  /\ MayLookup(upload)
  /\ LET k == Head(upload.queue)
         existing == {i \in DOMAIN classes :
                        classes[i].special_id = upload.rows[k].parsed.specialId}
         outcome == LookupOutcome(existing, upload.updateOnly)
         up == [upload EXCEPT !.queue = Tail(@)]
         new == IF getErr THEN Skip(up, k, LookupFailed)
                ELSE IF outcome = "skip" THEN Skip(up, k, UpdateOnlyNotFound)
                ELSE [up EXCEPT !.running = @ \cup {[row |-> k, statement |-> outcome]}]
     IN /\ upload' = new
        /\ res' = IF new.responded THEN Report(new) ELSE res
  /\ UNCHANGED <<classes, nextClassId, price_history, session, orders,
                 nextOrderRow, columnNames, migration, uploadsDir, updates, clock, accepted, panel, visibility>>

\* updateStmt.run / insertStmt.run and operationCallback, for a row whose
\* statement is pending
CompleteRow(err) ==
  /\ upload.active
  /\ \E st \in upload.running :
       LET k == st.row
           record == upload.rows[k].parsed
           blank == ClassRow("", "", "", "", NullStr, NullStr, NullStr, Null,
                             Null, NullStr, clock)
           up == [upload EXCEPT !.running = @ \ {st}]
           unique == st.statement = "insert"
                       /\ SpecialIdTaken(classes, 0, record.specialId)
           new == IF err THEN Skip(up, k, StatementFailed)
                  ELSE IF unique THEN Skip(up, k, UniqueFailed)
                  ELSE Processed(up, k, IF st.statement = "update"
                                        THEN "updated" ELSE "created")
       IN /\ upload' = new
          /\ res' = IF new.responded THEN Report(new) ELSE res
          /\ IF err \/ unique
             THEN UNCHANGED <<classes, nextClassId>>
             ELSE IF st.statement = "update"
             THEN /\ classes' = [i \in DOMAIN classes |->
                                   IF classes[i].special_id = record.specialId
                                   THEN BulkRow(classes[i], record, clock)
                                   ELSE classes[i]]
                  /\ UNCHANGED nextClassId
             ELSE /\ classes' = [i \in DOMAIN classes \cup {nextClassId} |->
                                   IF i = nextClassId
                                   THEN BulkRow(blank, record, clock)
                                   ELSE classes[i]]
                  /\ nextClassId' = nextClassId + 1
  /\ UNCHANGED <<price_history, session, orders, nextOrderRow, columnNames, migration, uploadsDir, updates,
                 clock, accepted, panel, visibility>>

\* db.js opens the connection and never issues PRAGMA foreign_keys = ON, so
\* SQLite does not enforce FOREIGN KEY ... ON DELETE CASCADE
ForeignKeysEnforced == FALSE
HistoryAfterDelete(history, ids) ==
  IF ForeignKeysEnforced
  THEN SelectSeq(history, LAMBDA h : h.class_id \notin ids)
  ELSE history

\* the video files the delete handlers hand to fs.unlink
VideosOf(rows, ids) ==
  {Basename(rows[i].class_video) : i \in {j \in ids : TruthyStr(rows[j].class_video)}}

DeleteClass(id) ==
  /\ IF id \notin DOMAIN classes
     THEN /\ res' = Respond(404)
          /\ UNCHANGED <<classes, price_history, uploadsDir>>
     ELSE /\ classes' = [i \in DOMAIN classes \ {id} |-> classes[i]]
          /\ price_history' = HistoryAfterDelete(price_history, {id})
          /\ uploadsDir' = Unlink(uploadsDir, VideosOf(classes, {id}))
          /\ res' = Respond(204)
  /\ UNCHANGED <<nextClassId, session, orders, nextOrderRow, columnNames, migration, updates, upload, clock,
                 accepted, panel, visibility>>

DeleteAllClasses ==
  /\ classes' = [i \in {} |-> classes[i]]
  /\ price_history' = HistoryAfterDelete(price_history, DOMAIN classes)
  /\ uploadsDir' = Unlink(uploadsDir, VideosOf(classes, DOMAIN classes))
  /\ res' = Respond(200)
  /\ UNCHANGED <<nextClassId, session, orders, nextOrderRow, columnNames, migration, updates, upload, clock,
                 accepted, panel, visibility>>

\* what the callback of fs.unlink, `() => {}`, makes of the response already sent
UnlinkCallbackReports(response, err) ==
  IF err THEN Respond(500) ELSE response
UnlinkCallback(response, err) == response
\* fs.unlink finishes: the file is gone, or the call failed and it stays; a
\* file that is not there cannot be removed
UnlinkDone(name, err) ==
  /\ name \in uploadsDir.unlinking
  /\ name \notin uploadsDir.files => err
  /\ uploadsDir' = [files |-> IF err THEN uploadsDir.files
                               ELSE uploadsDir.files \ {name},
                    unlinking |-> uploadsDir.unlinking \ {name}]
  /\ res' = UnlinkCallback(res, err)
  /\ UNCHANGED <<classes, nextClassId, price_history, session, orders, nextOrderRow,
                 columnNames, migration, updates, upload, clock, accepted, panel, visibility>>

\* ------------------------------------------------------------------- cart
\* req.session.cart is undefined until a handler creates it
NoCart == [defined |-> FALSE, lines |-> <<>>]
CartOf(sess) == IF sess.cart.defined THEN sess.cart.lines ELSE <<>>
Line(classId, quantity) == [classId |-> classId, quantity |-> quantity]
HasLine(lines, classId) == \E i \in DOMAIN lines : lines[i].classId = classId

\* the inputs a cart request may carry: a numeric class id, 0, or no number
ClassIdInputs == ClassIds \cup {0, Undefined}
QuantityInputs == (0..MaxQty) \cup {-1, Undefined}
\* every quantity for a class id, and one quantity for what is no class id
SetQuantityInputs ==
  (ClassIds \X QuantityInputs) \cup ((ClassIdInputs \ ClassIds) \X {1})

\* calculateCartTotal(session, callback): the total of the priced lines
LineAmount(rows, line) ==
  IF line.classId \in DOMAIN rows /\ IsNumber(rows[line.classId].class_price)
  THEN rows[line.classId].class_price * line.quantity
  ELSE 0
calculateCartTotal(sess, rows) ==
  LET cart == CartOf(sess) IN
  IF Len(cart) = 0 THEN 0
  ELSE SumSeq([i \in DOMAIN cart |-> LineAmount(rows, cart[i])])

\* router.get('/'): the body of the cart view, read from the cached total
CartViewCached(sess, rows) ==
  LET cart == CartOf(sess)
      items == SelectSeq(cart, LAMBDA l : l.classId \in DOMAIN rows)
  IN [items |-> [i \in DOMAIN items |->
                   [id |-> items[i].classId, quantity |-> items[i].quantity,
                    classPrice |-> rows[items[i].classId].class_price]],
      totalItems |-> SumSeq([i \in DOMAIN items |-> items[i].quantity]),
      knownTotal |-> IF sess.cartTotal = Undefined THEN 0 ELSE sess.cartTotal,
      hasUnknownPrices |->
        \E i \in DOMAIN items : ~IsNumber(rows[items[i].classId].class_price)]

\* router.get('/'): the body of the cart view, counting every line of the cart
CartViewAllLines(sess, rows) ==
  LET cart == CartOf(sess)
      items == SelectSeq(cart, LAMBDA l : l.classId \in DOMAIN rows)
  IN [items |-> [i \in DOMAIN items |->
                   [id |-> items[i].classId, quantity |-> items[i].quantity,
                    classPrice |-> rows[items[i].classId].class_price]],
      totalItems |-> SumSeq([i \in DOMAIN cart |-> cart[i].quantity]),
      knownTotal |-> SumSeq([i \in DOMAIN items |-> LineAmount(rows, items[i])]),
      hasUnknownPrices |->
        \E i \in DOMAIN items : ~IsNumber(rows[items[i].classId].class_price)]

\* router.get('/'): the body of the cart view
CartView(sess, rows) ==
  LET cart == CartOf(sess)
      \* cart.map(...).filter(item => item !== null): lines whose product exists
      items == SelectSeq(cart, LAMBDA l : l.classId \in DOMAIN rows)
  IN [items |-> [i \in DOMAIN items |->
                   [id |-> items[i].classId, quantity |-> items[i].quantity,
                    classPrice |-> rows[items[i].classId].class_price]],
      totalItems |-> SumSeq([i \in DOMAIN items |-> items[i].quantity]),
      knownTotal |-> SumSeq([i \in DOMAIN items |-> LineAmount(rows, items[i])]),
      hasUnknownPrices |->
        \E i \in DOMAIN items : ~IsNumber(rows[items[i].classId].class_price)]

ViewCart(s) ==
  /\ res' = [op |-> "view", status |-> 200, session |-> s,
             body |-> CartView(session[s], classes)]
  /\ UNCHANGED <<classes, nextClassId, price_history, session, orders,
                 nextOrderRow, columnNames, migration, uploadsDir, updates, upload, clock, accepted, panel, visibility>>

\* router.post('/add'): the cart with a line for classId, an existing line
\* left at its quantity
AddedLinesNoIncrement(lines, classId) ==
  IF HasLine(lines, classId) THEN lines ELSE Append(lines, Line(classId, 1))

\* router.post('/add'): the cart with one more unit of classId, appending a
\* line whether or not one exists
AddedLinesAlwaysPush(lines, classId) == Append(lines, Line(classId, 1))

\* router.post('/add'): the cart with one more unit of classId
AddedLines(lines, classId) ==
  IF HasLine(lines, classId)
  THEN [i \in DOMAIN lines |->
          IF lines[i].classId = classId
          THEN Line(classId, lines[i].quantity + 1) ELSE lines[i]]
  ELSE Append(lines, Line(classId, 1))

\* the session after a mutation: the lines, and the total cached from them
WithCart(lines, rows) ==
  LET sess == [cart |-> [defined |-> TRUE, lines |-> lines], cartTotal |-> 0]
  IN [sess EXCEPT !.cartTotal = calculateCartTotal(sess, rows)]

AddToCart(s, classId) ==
  /\ \A i \in DOMAIN CartOf(session[s]) :
        CartOf(session[s])[i].classId = classId =>
          CartOf(session[s])[i].quantity < MaxQty
  /\ IF ~TruthyNum(classId)
     THEN /\ res' = Respond(400)
          /\ UNCHANGED session
     ELSE /\ session' = [session EXCEPT ![s] =
                WithCart(AddedLines(CartOf(session[s]), classId), classes)]
          /\ res' = Respond(200)
  /\ UNCHANGED <<classes, nextClassId, price_history, orders, nextOrderRow,
                 columnNames, migration, uploadsDir, updates, upload, clock, accepted, panel, visibility>>

\* router.put('/update'): the cart after the quantity of classId is set
RemovedLines(lines, classId) == SelectSeq(lines, LAMBDA l : l.classId # classId)
QuantitySetLines(lines, classId, quantity) ==
  IF quantity = 0
  THEN RemovedLines(lines, classId)
  ELSE [i \in DOMAIN lines |->
          IF lines[i].classId = classId THEN Line(classId, quantity) ELSE lines[i]]

\* res.status(404).json({ error: 'Item not found in cart' })
NotInCart == [op |-> "message", status |-> 404, error |-> "Item not found in cart"]

\* router.put('/update') when the cart has no line for classId: the cart is
\* created anew whether or not the session has one
MissingLineCleared(sess, classId, quantity, rows) ==
  [cart |-> [defined |-> TRUE, lines |-> <<>>], cartTotal |-> 0]

\* router.put('/update') when the cart has no line for classId: the line is
\* created with the quantity asked for
MissingLineUpserted(sess, classId, quantity, rows) ==
  WithCart(Append(CartOf(sess), Line(classId, quantity)), rows)

\* router.put('/update') when the cart has no line for classId: the session
\* holds a cart by now (an empty one if it had none) and nothing else changes
MissingLine(sess, classId, quantity, rows) ==
  IF sess.cart.defined THEN sess
  ELSE [cart |-> [defined |-> TRUE, lines |-> <<>>], cartTotal |-> 0]

SetQuantity(s, classId, quantity) ==
  /\ IF ~TruthyNum(classId)
     THEN /\ res' = Respond(400)
          /\ UNCHANGED session
     ELSE IF quantity = Undefined \/ quantity < 0
     THEN /\ res' = Respond(400)
          /\ UNCHANGED session
     ELSE IF ~HasLine(CartOf(session[s]), classId)
     THEN /\ session' = [session EXCEPT ![s] =
                MissingLine(session[s], classId, quantity, classes)]
          /\ res' = NotInCart
     ELSE /\ session' = [session EXCEPT ![s] =
                WithCart(QuantitySetLines(CartOf(session[s]), classId, quantity),
                         classes)]
          /\ res' = Respond(200)
  /\ UNCHANGED <<classes, nextClassId, price_history, orders, nextOrderRow,
                 columnNames, migration, uploadsDir, updates, upload, clock, accepted, panel, visibility>>

\* router.delete('/remove/:classId'); a parameter parseInt cannot read is NaN
RemoveFromCart(s, classId) ==
  /\ IF classId = Undefined
     THEN /\ res' = Respond(400)
          /\ UNCHANGED session
     ELSE /\ session' = [session EXCEPT ![s] =
                WithCart(RemovedLines(CartOf(session[s]), classId), classes)]
          /\ res' = Respond(200)
  /\ UNCHANGED <<classes, nextClassId, price_history, orders, nextOrderRow,
                 columnNames, migration, uploadsDir, updates, upload, clock, accepted, panel, visibility>>

\* router.delete('/clear'): the cart of every session is emptied
ClearEveryCart(s) ==
  /\ session' = [t \in Sessions |->
        [cart |-> [defined |-> TRUE, lines |-> <<>>], cartTotal |-> 0]]
  /\ res' = Respond(200)
  /\ UNCHANGED <<classes, nextClassId, price_history, orders, nextOrderRow,
                 columnNames, migration, uploadsDir, updates, upload, clock, accepted, panel, visibility>>

\* router.delete('/clear')
ClearCart(s) ==
  /\ session' = [session EXCEPT ![s] =
        [cart |-> [defined |-> TRUE, lines |-> <<>>], cartTotal |-> 0]]
  /\ res' = Respond(200)
  /\ UNCHANGED <<classes, nextClassId, price_history, orders, nextOrderRow,
                 columnNames, migration, uploadsDir, updates, upload, clock, accepted, panel, visibility>>

\* ------------------------------------------------------------ order ledger
OrderIds == 1..MaxOrderRows

\* one line of an order's item snapshot, as the client sends it
Item(classId, quantity, specialId, className, classPrice) ==
  [classId |-> classId, quantity |-> quantity, specialId |-> specialId,
   className |-> className, classPrice |-> classPrice]
NoItem == Item(Undefined, Undefined, UndefinedStr, UndefinedStr, Undefined)

ItemsA == <<Item(1, 2, "CR01", "a", 10)>>
ItemsB == <<Item(1, 1, "CR01", "a", 12), Item(2, 3, "CR02", "a", Null)>>
\* req.body.items: an array, another JSON value, or absent
ArrayOf(val) == [kind |-> "array", val |-> val]
NotAnArray == [kind |-> "string", val |-> <<>>]
NoItems == [kind |-> "undefined", val |-> <<>>]

CustomerInfo(fullName, other) ==
  [defined |-> TRUE, fullName |-> fullName, company |-> other, phone |-> other,
   salesPerson |-> other, notes |-> other]
NoCustomerInfo ==
  [defined |-> FALSE, fullName |-> UndefinedStr, company |-> UndefinedStr,
   phone |-> UndefinedStr, salesPerson |-> UndefinedStr, notes |-> UndefinedStr]

BaseOrder(orderId, items) ==
  [orderId |-> orderId, customerInfo |-> CustomerInfo("n", "c"),
   items |-> ArrayOf(items), knownTotal |-> 20, totalItems |-> 2,
   hasUnknownPrices |-> FALSE, language |-> "en"]

\* request bodies the handler stores (a complete order, one without items, one
\* with a negative total, one without fullName and without the optional
\* fields), for every order id; and bodies it rejects
OrderPayloads ==
  UNION {
    {BaseOrder(o, ItemsA),
     BaseOrder(o, <<>>),
     [BaseOrder(o, ItemsA) EXCEPT !.knownTotal = -5],
     [BaseOrder(o, ItemsB) EXCEPT !.customerInfo = CustomerInfo(UndefinedStr, UndefinedStr),
                                  !.knownTotal = 0, !.totalItems = Undefined,
                                  !.hasUnknownPrices = TRUE, !.language = UndefinedStr]}
    : o \in OrderIds}
  \cup {BaseOrder(Undefined, ItemsA), BaseOrder(0, ItemsA),
        [BaseOrder(1, ItemsA) EXCEPT !.customerInfo = NoCustomerInfo],
        [BaseOrder(1, ItemsA) EXCEPT !.items = NoItems],
        [BaseOrder(1, ItemsA) EXCEPT !.items = NotAnArray],
        [BaseOrder(1, ItemsA) EXCEPT !.knownTotal = Undefined],
        [BaseOrder(1, ItemsA) EXCEPT !.knownTotal = Null]}

\* JSON.stringify(items): the text as a sequence of tokens; a property whose
\* value is undefined is left out
NumToken(n) == IF n = Null THEN "null" ELSE ToString(n)
StrToken(t) == IF t = NullStr THEN "null" ELSE "'" \o t \o "'"
NumProperty(key, n) == IF n = Undefined THEN <<>> ELSE <<key, NumToken(n)>>
StrProperty(key, t) == IF t = UndefinedStr THEN <<>> ELSE <<key, StrToken(t)>>
StringifyItem(it) ==
  <<"{">> \o NumProperty("classId", it.classId)
          \o NumProperty("quantity", it.quantity)
          \o StrProperty("specialId", it.specialId)
          \o StrProperty("className", it.className)
          \o NumProperty("classPrice", it.classPrice) \o <<"}">>
RECURSIVE StringifyItems(_)
StringifyItems(items) ==
  IF items = <<>> THEN <<>>
  ELSE StringifyItem(Head(items)) \o StringifyItems(Tail(items))
Stringify(items) == <<"[">> \o StringifyItems(items) \o <<"]">>

\* JSON.parse(text)
JsonNumbers == (-5..20) \cup {Null}
JsonStrings == {"", "a", "b", "CR01", "CR02", "cr01", NullStr}
NumTokens == [n \in JsonNumbers |-> NumToken(n)]
StrTokens == [t \in JsonStrings |-> StrToken(t)]
NumberOf == [tok \in {NumTokens[n] : n \in JsonNumbers} |->
               CHOOSE n \in JsonNumbers : NumTokens[n] = tok]
StringOf == [tok \in {StrTokens[t] : t \in JsonStrings} |->
               CHOOSE t \in JsonStrings : StrTokens[t] = tok]
ParseNum(tok) == NumberOf[tok]
ParseStr(tok) == StringOf[tok]
RECURSIVE ParseTokens(_, _, _, _)
ParseTokens(text, i, cur, acc) ==
  IF i > Len(text) \/ text[i] = "]" THEN acc
  ELSE IF text[i] = "[" THEN ParseTokens(text, i + 1, cur, acc)
  ELSE IF text[i] = "{" THEN ParseTokens(text, i + 1, NoItem, acc)
  ELSE IF text[i] = "}" THEN ParseTokens(text, i + 1, NoItem, Append(acc, cur))
  ELSE IF text[i] \in {"classId", "quantity", "classPrice"}
       THEN ParseTokens(text, i + 2, [cur EXCEPT ![text[i]] = ParseNum(text[i + 1])], acc)
       ELSE ParseTokens(text, i + 2, [cur EXCEPT ![text[i]] = ParseStr(text[i + 1])], acc)
Parse(text) == ParseTokens(text, 1, NoItem, <<>>)

\* a column the table does not have, and SQL NULL in a text column
NoColumn == <<"<no column>">>
NullText == <<"<NULL>">>

\* router.get('/:orderId'), router.get('/'): "Parse items safely"
SafeParse(raw) == IF raw = NoColumn \/ raw = NullText THEN <<>> ELSE Parse(raw)

RowsWithOrderId(rows, orderId) == {r \in DOMAIN rows : rows[r].order_id = orderId}

\* router.post('/'): the row INSERT INTO orders stores
InsertedOrder(id, body, cols, now) ==
  LET itemsJsonString == Stringify(body.items.val) IN
  [id |-> id,
   order_id |-> body.orderId,
   customer_full_name |-> OrStr(body.customerInfo.fullName, ""),
   customer_company |-> OrStr(body.customerInfo.company, NullStr),
   customer_phone |-> OrStr(body.customerInfo.phone, NullStr),
   customer_sales_person |-> OrStr(body.customerInfo.salesPerson, NullStr),
   customer_notes |-> OrStr(body.customerInfo.notes, NullStr),
   items |-> itemsJsonString,
   items_json |-> IF "items_json" \in cols THEN itemsJsonString ELSE NoColumn,
   known_total |-> body.knownTotal,
   total_items |-> IF TruthyNum(body.totalItems) THEN body.totalItems ELSE 0,
   has_unknown_prices |-> IF body.hasUnknownPrices THEN 1 ELSE 0,
   language |-> OrStr(body.language, "es"),
   created_at |-> now]

\* the response body built from a row, joining each item with the catalog
OrderBodyLiveJoin(row, cols) ==
  LET stored == SafeParse(row[IF "items" \in cols THEN "items" ELSE "items_json"])
      live == SelectSeq(stored, LAMBDA it : it.classId \in DOMAIN classes)
  IN [id |-> row.id, orderId |-> row.order_id,
      fullName |-> row.customer_full_name,
      items |-> [i \in DOMAIN live |->
                   [live[i] EXCEPT !.classPrice = classes[live[i].classId].class_price]],
      knownTotal |-> row.known_total, totalItems |-> row.total_items,
      hasUnknownPrices |-> row.has_unknown_prices = 1,
      language |-> OrStr(row.language, "es"), createdAt |-> row.created_at]

\* router.get('/:orderId'), router.get('/'): the response body built from a row
OrderBody(row, cols) ==
  LET itemsColumnName == IF "items" \in cols THEN "items" ELSE "items_json" IN
  [id |-> row.id, orderId |-> row.order_id,
   fullName |-> row.customer_full_name,
   items |-> SafeParse(row[itemsColumnName]),
   knownTotal |-> row.known_total, totalItems |-> row.total_items,
   hasUnknownPrices |-> row.has_unknown_prices = 1,
   language |-> OrStr(row.language, "es"), createdAt |-> row.created_at]

\* the orders table after a successful INSERT
OrdersAfterInsert(rows, row) ==
  [r \in DOMAIN rows \cup {row.id} |-> IF r = row.id THEN row ELSE rows[r]]

\* the constraint the INSERT trips over when order_id is not declared UNIQUE
InsertErrorNoUnique(rows, row, cols) ==
  IF "items" \notin cols THEN "no such column"
  ELSE IF row.known_total = Null THEN "NOT NULL constraint failed"
  ELSE ""

\* the constraint the INSERT trips over, if any: "" when it succeeds
InsertError(rows, row, cols) ==
  IF "items" \notin cols THEN "no such column"
  ELSE IF row.known_total = Null THEN "NOT NULL constraint failed"
  ELSE IF RowsWithOrderId(rows, row.order_id) # {} THEN "UNIQUE constraint failed"
  ELSE ""

\* router.post('/') of the orders router
SubmitOrder(body) ==
  /\ clock < MaxClock
  /\ nextOrderRow <= MaxOrderRows
  /\ IF body.items.kind # "array"
     THEN /\ res' = Respond(400)
          /\ UNCHANGED <<orders, nextOrderRow, accepted, clock>>
     ELSE IF ~TruthyNum(body.orderId) \/ ~body.customerInfo.defined
             \/ body.knownTotal = Undefined
     THEN /\ res' = Respond(400)
          /\ UNCHANGED <<orders, nextOrderRow, accepted, clock>>
     ELSE LET row == InsertedOrder(nextOrderRow, body, columnNames, clock + 1)
              err == InsertError(orders, row, columnNames)
          IN IF err = "UNIQUE constraint failed"
             THEN /\ res' = Respond(409)
                  /\ UNCHANGED <<orders, nextOrderRow, accepted, clock>>
             ELSE IF err # ""
             THEN /\ res' = Respond(500)
                  /\ UNCHANGED <<orders, nextOrderRow, accepted, clock>>
             ELSE /\ orders' = OrdersAfterInsert(orders, row)
                  /\ nextOrderRow' = nextOrderRow + 1
                  /\ clock' = clock + 1
                  /\ accepted' = [o \in DOMAIN accepted \cup {body.orderId} |->
                                    IF o = body.orderId THEN body ELSE accepted[o]]
                  /\ res' = [op |-> "submit", status |-> 201,
                             body |-> OrderBody(orders'[row.id], columnNames)]
  /\ UNCHANGED <<classes, nextClassId, price_history, session, columnNames, migration, uploadsDir, updates, upload, panel, visibility>>

\* router.get('/:orderId')
GetOrder(orderId) ==
  /\ IF RowsWithOrderId(orders, orderId) = {}
     THEN res' = Respond(404)
     ELSE res' = [op |-> "get", status |-> 200,
                  body |-> OrderBody(orders[CHOOSE r \in RowsWithOrderId(orders, orderId) : TRUE],
                                     columnNames)]
  /\ UNCHANGED <<classes, nextClassId, price_history, session, orders,
                 nextOrderRow, columnNames, migration, uploadsDir, updates, upload, clock, accepted, panel, visibility>>

\* ORDER BY created_at DESC
RECURSIVE NewestFirst(_, _)
NewestFirst(rows, ids) ==
  IF ids = {} THEN <<>>
  ELSE LET r == CHOOSE x \in ids : \A y \in ids : rows[y].created_at <= rows[x].created_at
       IN <<r>> \o NewestFirst(rows, ids \ {r})

ListBody(rows, cols) ==
  LET sorted == NewestFirst(rows, DOMAIN rows)
  IN [i \in DOMAIN sorted |-> OrderBody(rows[sorted[i]], cols)]

\* router.get('/') of the orders router
ListOrders ==
  /\ res' = [op |-> "list", status |-> 200, body |-> ListBody(orders, columnNames)]
  /\ UNCHANGED <<classes, nextClassId, price_history, session, orders,
                 nextOrderRow, columnNames, migration, uploadsDir, updates, upload, clock, accepted, panel, visibility>>

\* router.delete('/:orderId')
DeleteOrder(orderId) ==
  /\ IF RowsWithOrderId(orders, orderId) = {}
     THEN /\ res' = Respond(404)
          /\ UNCHANGED <<orders, accepted>>
     ELSE /\ orders' = [r \in DOMAIN orders \ RowsWithOrderId(orders, orderId) |-> orders[r]]
          /\ accepted' = [o \in DOMAIN accepted \ {orderId} |-> accepted[o]]
          /\ res' = Respond(204)
  /\ UNCHANGED <<classes, nextClassId, price_history, session, nextOrderRow,
                 columnNames, migration, uploadsDir, updates, upload, clock, panel, visibility>>

\* ------------------------------------------------------- orders migration
\* initializeDatabase, "Migration: Check if orders table has items_json column
\* and migrate to items": the statements run one after the other, each in the
\* callback of the one before
NoTable == <<"<no table>">>
NoMigration == [pc |-> "over", outcome |-> "none", orders_new |-> NoTable, before |-> <<>>]
\* the column sets an orders table left by an earlier version may have
OldShapes == {{"items"}, {"items_json"}, {"items", "items_json"}, {}}
\* a row stored before this start of the server: in a table with both columns
\* its items are NULL (stored before the column existed) or equal to items_json
\* (stored by router.post, which writes both)
OldRow(cols, id, items, copied) ==
  [InsertedOrder(id, BaseOrder(id, items), cols, 0) EXCEPT
     !.items = IF "items" \notin cols THEN NoColumn
               ELSE IF "items_json" \in cols /\ ~copied THEN NullText
               ELSE Stringify(items),
     !.items_json = IF "items_json" \in cols THEN Stringify(items) ELSE NoColumn]
OldTables(cols) ==
  UNION {{[id \in 1..n |-> OldRow(cols, id, it[id], cp[id])] :
            it \in [1..n -> {ItemsA, ItemsB}],
            cp \in [1..n -> IF cols = {"items", "items_json"} THEN BOOLEAN ELSE {TRUE}]}
         : n \in 0..MaxOrderRows}

\* db.all('PRAGMA table_info(orders)') and the branch its callback takes
ProbeOrders ==
  /\ migration.pc = "probe"
  /\ migration' =
       IF "items_json" \in columnNames /\ "items" \in columnNames
       THEN [migration EXCEPT !.pc = "update"]
       ELSE IF "items_json" \in columnNames
       THEN [migration EXCEPT !.pc = "rename"]
       ELSE IF "items" \in columnNames
       THEN [migration EXCEPT !.pc = "over", !.outcome = "kept"]
       ELSE [migration EXCEPT !.pc = "add"]
  /\ UNCHANGED <<classes, nextClassId, price_history, session, orders, nextOrderRow,
                 columnNames, clock, accepted, upload, updates, uploadsDir, res, panel, visibility>>

\* UPDATE orders SET items = items_json WHERE items IS NULL AND items_json IS NOT NULL
ItemsCopied(rows) ==
  [r \in DOMAIN rows |->
     IF rows[r].items = NullText /\ rows[r].items_json # NullText
     THEN [rows[r] EXCEPT !.items = rows[r].items_json] ELSE rows[r]]
CopyItemsJson(updateErr) ==
  /\ migration.pc = "update"
  /\ IF updateErr
     THEN /\ migration' = [migration EXCEPT !.pc = "over", !.outcome = "failed"]
          /\ UNCHANGED orders
     ELSE /\ orders' = ItemsCopied(orders)
          /\ migration' = [migration EXCEPT !.pc = "over", !.outcome = "copied"]
  /\ UNCHANGED <<classes, nextClassId, price_history, session, nextOrderRow,
                 columnNames, clock, accepted, upload, updates, uploadsDir, res, panel, visibility>>

\* ALTER TABLE orders RENAME COLUMN items_json TO items
ColumnRenamed(rows) ==
  [r \in DOMAIN rows |-> [rows[r] EXCEPT !.items = rows[r].items_json,
                                         !.items_json = NoColumn]]
\* renameErr: an SQLite older than 3.25.0 has no RENAME COLUMN
RenameColumn(renameErr) ==
  /\ migration.pc = "rename"
  /\ IF renameErr
     THEN /\ migration' = [migration EXCEPT !.pc = "create"]
          /\ UNCHANGED <<orders, columnNames>>
     ELSE /\ orders' = ColumnRenamed(orders)
          /\ columnNames' = {"items"}
          /\ migration' = [migration EXCEPT !.pc = "over", !.outcome = "renamed"]
  /\ UNCHANGED <<classes, nextClassId, price_history, session, nextOrderRow,
                 clock, accepted, upload, updates, uploadsDir, res, panel, visibility>>

\* the fallback: CREATE TABLE orders_new
CreateOrdersNew(createErr) ==
  /\ migration.pc = "create"
  /\ migration' =
       IF createErr THEN [migration EXCEPT !.pc = "over", !.outcome = "failed"]
       ELSE [migration EXCEPT !.pc = "insert", !.orders_new = <<>>]
  /\ UNCHANGED <<classes, nextClassId, price_history, session, orders, nextOrderRow,
                 columnNames, clock, accepted, upload, updates, uploadsDir, res, panel, visibility>>

\* INSERT INTO orders_new SELECT id, ..., items_json, ... FROM orders
CopiedRowsItems(rows) ==
  [r \in DOMAIN rows |-> [rows[r] EXCEPT !.items_json = NoColumn]]
CopiedRows(rows) ==
  [r \in DOMAIN rows |-> [rows[r] EXCEPT !.items = rows[r].items_json,
                                         !.items_json = NoColumn]]
\* on insertErr the handler drops orders_new again and gives up
CopyToOrdersNew(insertErr) ==
  /\ migration.pc = "insert"
  /\ migration' =
       IF insertErr
       THEN [migration EXCEPT !.pc = "over", !.outcome = "failed", !.orders_new = NoTable]
       ELSE [migration EXCEPT !.pc = "drop", !.orders_new = CopiedRows(orders)]
  /\ UNCHANGED <<classes, nextClassId, price_history, session, orders, nextOrderRow,
                 columnNames, clock, accepted, upload, updates, uploadsDir, res, panel, visibility>>

\* DROP TABLE orders
DropOrders(dropErr) ==
  /\ migration.pc = "drop"
  /\ IF dropErr
     THEN /\ migration' = [migration EXCEPT !.pc = "over", !.outcome = "failed"]
          /\ UNCHANGED <<orders, columnNames>>
     ELSE /\ orders' = <<>>
          /\ columnNames' = {}
          /\ migration' = [migration EXCEPT !.pc = "renameTable"]
  /\ UNCHANGED <<classes, nextClassId, price_history, session, nextOrderRow,
                 clock, accepted, upload, updates, uploadsDir, res, panel, visibility>>

\* ALTER TABLE orders_new RENAME TO orders
RenameOrdersNew(renameErr2) ==
  /\ migration.pc = "renameTable"
  /\ IF renameErr2
     THEN /\ migration' = [migration EXCEPT !.pc = "over", !.outcome = "failed"]
          /\ UNCHANGED <<orders, columnNames>>
     ELSE /\ orders' = migration.orders_new
          /\ columnNames' = {"items"}
          /\ migration' = [migration EXCEPT !.pc = "over", !.outcome = "rebuilt",
                                            !.orders_new = NoTable]
  /\ UNCHANGED <<classes, nextClassId, price_history, session, nextOrderRow,
                 clock, accepted, upload, updates, uploadsDir, res, panel, visibility>>

\* ALTER TABLE orders ADD COLUMN items TEXT NOT NULL DEFAULT "[]"
ItemsAdded(rows) ==
  [r \in DOMAIN rows |-> [rows[r] EXCEPT !.items = Stringify(<<>>)]]
AddItemsColumn(addErr) ==
  /\ migration.pc = "add"
  /\ IF addErr
     THEN /\ migration' = [migration EXCEPT !.pc = "over", !.outcome = "failed"]
          /\ UNCHANGED <<orders, columnNames>>
     ELSE /\ orders' = ItemsAdded(orders)
          /\ columnNames' = {"items"}
          /\ migration' = [migration EXCEPT !.pc = "over", !.outcome = "added"]
  /\ UNCHANGED <<classes, nextClassId, price_history, session, nextOrderRow,
                 clock, accepted, upload, updates, uploadsDir, res, panel, visibility>>

MigrationNext ==
  \/ ProbeOrders
  \/ \E err \in BOOLEAN : CopyItemsJson(err)
  \/ \E err \in BOOLEAN : RenameColumn(err)
  \/ \E err \in BOOLEAN : CreateOrdersNew(err)
  \/ \E err \in BOOLEAN : CopyToOrdersNew(err)
  \/ \E err \in BOOLEAN : DropOrders(err)
  \/ \E err \in BOOLEAN : RenameOrdersNew(err)
  \/ \E err \in BOOLEAN : AddItemsColumn(err)

\* ------------------------------------------- admin panel: visible columns
MaxPending == 2
\* two of the ColumnKey values stand for the ten
ColumnKeys == {"specialId", "className"}
ColumnMaps == [ColumnKeys -> BOOLEAN]
defaultColumnVisibility == [k \in ColumnKeys |-> TRUE]
\* normalizeColumnVisibility: every key, each as a boolean
normalizeColumnVisibility(map) == [k \in ColumnKeys |-> map[k] = TRUE]
activeColumnCount(map) == Cardinality({k \in ColumnKeys : map[k]})
\* the map on screen is the map the server holds and nothing is in flight
SettledVisibility(map) ==
  [shown |-> map, stored |-> map, requests |-> {}, responses |-> {}]

\* handleToggleColumn: the maps it hands to columnVisibilityMutation.mutate,
\* one or none
ToggledUnguarded(columnVisibility, key) ==
  {[columnVisibility EXCEPT ![key] = ~columnVisibility[key]]}
Toggled(columnVisibility, key) ==
  LET nextValue == ~columnVisibility[key] IN
  IF ~nextValue /\ activeColumnCount(columnVisibility) <= 1
  THEN {}
  ELSE {[columnVisibility EXCEPT ![key] = nextValue]}
\* a click on a column checkbox; the map it starts from is the one on screen,
\* whatever updates are still on their way
handleToggleColumn(key) ==
  /\ panel.mounted
  /\ Cardinality(visibility.requests) < MaxPending
  /\ visibility' = [visibility EXCEPT
                      !.requests = @ \cup Toggled(visibility.shown, key)]
  /\ UNCHANGED <<classes, nextClassId, price_history, session, orders, nextOrderRow,
                 columnNames, clock, accepted, upload, updates, uploadsDir, migration,
                 panel, res>>
\* the settings store: set columnVisibility, refusing a map with no column left
SetColumnVisibility(stored, map) ==
  IF activeColumnCount(map) = 0 THEN stored ELSE map
\* PUT /api/settings/columns reaches the server, in whatever order
ArriveUpdate(map) ==
  /\ map \in visibility.requests
  /\ visibility' = [visibility EXCEPT
                      !.requests = @ \ {map},
                      !.stored = SetColumnVisibility(@, map),
                      !.responses = IF activeColumnCount(map) = 0 THEN @
                                    ELSE @ \cup {map}]
  /\ UNCHANGED <<classes, nextClassId, price_history, session, orders, nextOrderRow,
                 columnNames, clock, accepted, upload, updates, uploadsDir, migration,
                 panel, res>>
\* onSuccess: queryClient.setQueryData(['columnVisibility'], data)
DeliverUpdate(map) ==
  /\ map \in visibility.responses
  /\ visibility' = [visibility EXCEPT !.responses = @ \ {map},
                                      !.shown = normalizeColumnVisibility(map)]
  /\ UNCHANGED <<classes, nextClassId, price_history, session, orders, nextOrderRow,
                 columnNames, clock, accepted, upload, updates, uploadsDir, migration,
                 panel, res>>
\* fetchColumnVisibility after invalidateQueries
RefetchColumns ==
  /\ panel.mounted
  /\ visibility' = [visibility EXCEPT !.shown = normalizeColumnVisibility(visibility.stored)]
  /\ UNCHANGED <<classes, nextClassId, price_history, session, orders, nextOrderRow,
                 columnNames, clock, accepted, upload, updates, uploadsDir, migration,
                 panel, res>>

\* ------------------------------------------------- admin panel: sheet sync
MaxSyncs == 2
MaxStarted == 3
SheetUrls == {"", "u"}
\* the panel is not on screen; `saved` is the googleSheetsSync setting the
\* server holds, inFlight the sync requests of the panel on screen, detached
\* those of panels that have left the screen since, started the number of sync
\* requests sent so far
NoPanel ==
  [mounted |-> FALSE, googleSheetsUrl |-> "", googleSheetsAutoSync |-> FALSE,
   isSyncing |-> FALSE, isPending |-> FALSE, interval |-> FALSE,
   inFlight |-> 0, detached |-> 0, started |-> 0, saved |-> [url |-> "u", autoSync |-> TRUE]]

\* syncFromSheetsMutation.mutate after setIsSyncing(true)
SyncStarted(p) ==
  [p EXCEPT !.isSyncing = TRUE, !.isPending = TRUE, !.inFlight = @ + 1,
            !.started = @ + 1]
\* performSync, with the values of the render it was created in
performSync(p) ==
  IF ~p.isPending /\ ~p.isSyncing THEN SyncStarted(p) ELSE p
\* the auto-sync effect, run again after a render in which googleSheetsAutoSync,
\* googleSheetsUrl, syncFromSheetsMutation or isSyncing changed: the interval
\* of the run before is cleared, performSync is called at once and a new
\* interval is set
AutoSyncEffect(p) ==
  IF ~p.googleSheetsAutoSync \/ p.googleSheetsUrl = ""
  THEN [p EXCEPT !.interval = FALSE]
  ELSE [performSync(p) EXCEPT !.interval = TRUE]

\* the route /admin is entered: a new AdminPanel with fresh state, and the
\* effect on googleSheetsQuery.data copies the saved settings into it
MountPanel ==
  /\ ~panel.mounted
  /\ panel' = AutoSyncEffect([panel EXCEPT !.mounted = TRUE,
                                           !.googleSheetsUrl = panel.saved.url,
                                           !.googleSheetsAutoSync = panel.saved.autoSync,
                                           !.isSyncing = FALSE, !.isPending = FALSE])
  /\ panel'.started <= MaxStarted
  /\ UNCHANGED <<classes, nextClassId, price_history, session, orders, nextOrderRow,
                 columnNames, clock, accepted, upload, updates, uploadsDir, migration,
                 visibility, res>>
\* the route is left: the interval is cleared, the requests go on
UnmountPanel ==
  /\ panel.mounted
  /\ panel.inFlight + panel.detached < MaxSyncs
  /\ panel' = [panel EXCEPT !.mounted = FALSE, !.interval = FALSE,
                            !.isSyncing = FALSE, !.isPending = FALSE,
                            !.detached = @ + panel.inFlight, !.inFlight = 0]
  /\ UNCHANGED <<classes, nextClassId, price_history, session, orders, nextOrderRow,
                 columnNames, clock, accepted, upload, updates, uploadsDir, migration,
                 visibility, res>>
\* the auto-sync checkbox
SetAutoSync(checked) ==
  /\ panel.mounted
  /\ checked # panel.googleSheetsAutoSync
  /\ panel' = AutoSyncEffect([panel EXCEPT !.googleSheetsAutoSync = checked])
  /\ panel'.started <= MaxStarted
  /\ UNCHANGED <<classes, nextClassId, price_history, session, orders, nextOrderRow,
                 columnNames, clock, accepted, upload, updates, uploadsDir, migration,
                 visibility, res>>
\* the URL field
SetUrl(url) ==
  /\ panel.mounted
  /\ url # panel.googleSheetsUrl
  /\ panel' = AutoSyncEffect([panel EXCEPT !.googleSheetsUrl = url])
  /\ panel'.started <= MaxStarted
  /\ UNCHANGED <<classes, nextClassId, price_history, session, orders, nextOrderRow,
                 columnNames, clock, accepted, upload, updates, uploadsDir, migration,
                 visibility, res>>
\* "Save Settings": the server keeps the URL and the flag
SaveSettings ==
  /\ panel.mounted
  /\ panel' = [panel EXCEPT !.saved = [url |-> panel.googleSheetsUrl,
                                       autoSync |-> panel.googleSheetsAutoSync]]
  /\ UNCHANGED <<classes, nextClassId, price_history, session, orders, nextOrderRow,
                 columnNames, clock, accepted, upload, updates, uploadsDir, migration,
                 visibility, res>>
\* setInterval(performSync, 5 * 60 * 1000) fires
Tick ==
  /\ panel.mounted /\ panel.interval
  /\ panel' = AutoSyncEffect(performSync(panel))
  /\ panel'.started <= MaxStarted
  /\ UNCHANGED <<classes, nextClassId, price_history, session, orders, nextOrderRow,
                 columnNames, clock, accepted, upload, updates, uploadsDir, migration,
                 visibility, res>>
\* "Sync Now" / "Update Existing Only": the buttons are disabled while
\* isSyncing or isPending
ClickSync ==
  /\ panel.mounted
  /\ ~panel.isSyncing /\ ~panel.isPending /\ panel.googleSheetsUrl # ""
  /\ panel' = AutoSyncEffect(SyncStarted(panel))
  /\ panel'.started <= MaxStarted
  /\ UNCHANGED <<classes, nextClassId, price_history, session, orders, nextOrderRow,
                 columnNames, clock, accepted, upload, updates, uploadsDir, migration,
                 visibility, res>>
\* a sync request of the panel on screen comes back (onSuccess or onError, then
\* onSettled): isSyncing and isPending fall, the panel renders and the effect
\* runs again
SettleSync ==
  /\ panel.mounted /\ panel.inFlight > 0
  /\ panel' = AutoSyncEffect([panel EXCEPT !.inFlight = @ - 1,
                                           !.isSyncing = FALSE, !.isPending = FALSE])
  /\ panel'.started <= MaxStarted
  /\ UNCHANGED <<classes, nextClassId, price_history, session, orders, nextOrderRow,
                 columnNames, clock, accepted, upload, updates, uploadsDir, migration,
                 visibility, res>>
\* a sync request of a panel that has left the screen comes back
SettleDetached ==
  /\ panel.detached > 0
  /\ panel' = [panel EXCEPT !.detached = @ - 1]
  /\ UNCHANGED <<classes, nextClassId, price_history, session, orders, nextOrderRow,
                 columnNames, clock, accepted, upload, updates, uploadsDir, migration,
                 visibility, res>>
ColumnsNext ==
  \/ MountPanel
  \/ UnmountPanel
  \/ \E key \in ColumnKeys : handleToggleColumn(key)
  \/ \E map \in ColumnMaps : ArriveUpdate(map)
  \/ \E map \in ColumnMaps : DeliverUpdate(map)
  \/ RefetchColumns
SyncNext ==
  \/ MountPanel
  \/ UnmountPanel
  \/ \E checked \in BOOLEAN : SetAutoSync(checked)
  \/ \E url \in SheetUrls : SetUrl(url)
  \/ SaveSettings
  \/ Tick
  \/ ClickSync
  \/ SettleSync
  \/ SettleDetached

\* ------------------------------------------------------------ specifications
\* price_history rows an existing database file may hold for its classes
HistoryEntry(classId, old, new) ==
  [class_id |-> classId, old_price |-> old, new_price |-> new]

\* The database file outlives the process (CREATE TABLE IF NOT EXISTS): it is
\* new, or it holds two classes, one with a recorded price change.
FreshDatabase ==
  /\ classes = <<>>
  /\ nextClassId = 1
  /\ price_history = <<>>
ExistingDatabase ==
  /\ classes = <<ClassRow("CR01", "a", "a", "a", NullStr, NullStr, NullStr, 12, Null,
                          NullStr, 0),
                 ClassRow("CR02", "a", "a", "b", NullStr, NullStr, NullStr, Null, 5,
                          "/uploads/v1.mp4", 0)>>
  /\ nextClassId = 3
  /\ price_history = <<HistoryEntry(1, 10, 12)>>

\* the server once initializeDatabase has run: no session has a cart, the
\* orders table is empty and has the item columns `shapes` allow
Started(shapes) ==
  /\ session = [s \in Sessions |-> [cart |-> NoCart, cartTotal |-> Undefined]]
  /\ orders = <<>>
  /\ nextOrderRow = 1
  /\ columnNames \in shapes
  /\ clock = 0
  /\ accepted = <<>>
  /\ upload = NoUpload
  /\ updates = [r \in Requests |-> NoRequest]
  /\ migration = NoMigration
  /\ panel = NoPanel
  /\ visibility = SettledVisibility(defaultColumnVisibility)
  /\ uploadsDir = [files |-> {Basename(classes[i].class_video) :
                                i \in {j \in DOMAIN classes : InUploads(classes[j].class_video)}},
                   unlinking |-> {}]
  /\ res = Respond(0)

\* the orders table initializeDatabase creates, and the tables older versions
\* of the schema left behind
NewOrdersTable == {{"items"}}
OrdersTables == {{"items"}, {"items", "items_json"}, {"items_json"}}

Init ==
  /\ FreshDatabase \/ ExistingDatabase
  /\ Started(OrdersTables)
InitCatalog ==
  /\ FreshDatabase \/ ExistingDatabase
  /\ Started(NewOrdersTable)
InitCart ==
  /\ ExistingDatabase
  /\ Started(NewOrdersTable)
InitOrders ==
  /\ ExistingDatabase
  /\ Started(OrdersTables)

CatalogNext ==
  \/ \E p \in CreatePayloads : CreateClass(p, FALSE)
  \/ CreateClass([EmptyPayload EXCEPT !.className = "a"], TRUE)
  \/ \E id \in ClassIds, r \in UpdateRequests : UpdateClass(id, r[1], r[2])
  \/ \E id \in ClassIds : DeleteClass(id)
  \/ DeleteAllClasses
  \/ \E r \in BulkRecords, u \in BOOLEAN : BulkUpload(r, u)

\* price edits and deletions, and bulk uploads, as the cart and the order ledger see them
PricePayloads == {[EmptyPayload EXCEPT !.classPrice = v] : v \in {Null, 10}}
PriceNext ==
  \/ \E id \in ClassIds, p \in PricePayloads : UpdateClass(id, p, FALSE)
  \/ \E id \in ClassIds : DeleteClass(id)
  \/ DeleteAllClasses
UploadNext == \E r \in BulkRecords, u \in BOOLEAN : BulkUpload(r, u)

CartNext(S) ==
  \/ \E s \in S, c \in ClassIdInputs : AddToCart(s, c)
  \/ \E s \in S, i \in SetQuantityInputs : SetQuantity(s, i[1], i[2])
  \/ \E s \in S, c \in ClassIdInputs : RemoveFromCart(s, c)
  \/ \E s \in S : ClearCart(s)
  \/ \E s \in S : ViewCart(s)

OrderNext ==
  \/ \E b \in OrderPayloads : SubmitOrder(b)
  \/ \E o \in OrderIds : GetOrder(o)
  \/ ListOrders
  \/ \E o \in OrderIds : DeleteOrder(o)

Next == CatalogNext \/ CartNext(Sessions) \/ OrderNext
Spec == Init /\ [][Next]_vars

\* the server starting on a database an earlier version left behind: the
\* CREATE TABLE IF NOT EXISTS statements have run, the migration is about to
InitMigration ==
  /\ ExistingDatabase
  /\ session = [s \in Sessions |-> [cart |-> NoCart, cartTotal |-> Undefined]]
  /\ columnNames \in OldShapes
  /\ orders \in OldTables(columnNames)
  /\ nextOrderRow = Cardinality(DOMAIN orders) + 1
  /\ clock = 0
  /\ accepted = <<>>
  /\ upload = NoUpload
  /\ updates = [r \in Requests |-> NoRequest]
  /\ uploadsDir = [files |-> {"v1.mp4"}, unlinking |-> {}]
  /\ migration = [pc |-> "probe", outcome |-> "none", orders_new |-> NoTable,
                  before |-> orders]
  /\ panel = NoPanel
  /\ visibility = SettledVisibility(defaultColumnVisibility)
  /\ res = Respond(0)
SpecMigration == InitMigration /\ [][MigrationNext]_vars

\* the admin panel and its column checkboxes
SpecColumns == InitCatalog /\ [][ColumnsNext]_vars
\* the admin panel and its sheet syncs
SpecSync == InitCatalog /\ [][SyncNext]_vars

\* the video files of the catalog: uploads, deletions and the fs.unlink calls
\* they leave behind
VideoNames == {"v1.mp4", "new.mp4", "v.mp4"}
MediaPayloads ==
  {[EmptyPayload EXCEPT !.classVideoUrl = v] : v \in {DeleteMarker, ExternalVideo}}
MediaNext ==
  \/ CreateClass([EmptyPayload EXCEPT !.className = "a"], TRUE)
  \/ \E id \in ClassIds : UpdateClass(id, EmptyPayload, TRUE)
  \/ \E id \in ClassIds, p \in MediaPayloads : UpdateClass(id, p, FALSE)
  \/ \E id \in ClassIds : DeleteClass(id)
  \/ DeleteAllClasses
  \/ \E name \in VideoNames, err \in BOOLEAN : UnlinkDone(name, err)
SpecMedia == InitCatalog /\ [][MediaNext]_vars

\* updates of the catalog rows, and deletions
EditsNext ==
  \/ \E id \in ClassIds, r \in UpdateRequests : UpdateClass(id, r[1], r[2])
  \/ \E id \in ClassIds : DeleteClass(id)
SpecUpdates == InitCatalog /\ [][EditsNext]_vars

\* the catalog store alone
SpecCatalog == InitCatalog /\ [][CatalogNext]_vars
\* one session's cart over a catalog whose prices change and whose products
\* disappear
SpecCart == InitCart /\ [][CartNext({"A"}) \/ PriceNext]_vars
\* two update requests whose statements the connection runs as they come
EditNext ==
  \/ \E r \in Requests, id \in ClassIds, p \in ConcurrentPayloads :
       ReadForUpdate(r, id, p)
  \/ \E r \in Requests : WriteUpdate(r)
SpecEdits == InitCart /\ [][EditNext]_vars
\* one bulk-upload request, from its arrival to its answer
SheetNext ==
  \/ \E req \in UploadRequests : BeginUpload(req)
  \/ \E getErr \in BOOLEAN : LookupRow(getErr)
  \/ \E err \in BOOLEAN : CompleteRow(err)
SpecUpload == InitCatalog /\ [][SheetNext]_vars
\* SQLite finishes every statement it is given and the event loop runs every
\* callback that is due
SpecUploadFair ==
  /\ SpecUpload
  /\ WF_vars(\E getErr \in BOOLEAN : LookupRow(getErr))
  /\ WF_vars(\E err \in BOOLEAN : CompleteRow(err))
\* the carts of two browser sessions over a catalog nobody edits: session A
\* sends every cart request, session B adds one product, views and clears
GuestNext == AddToCart("B", 1) \/ ClearCart("B") \/ ViewCart("B")
SpecSessions == InitCart /\ [][CartNext({"A"}) \/ GuestNext]_vars
\* the order ledger over the same catalog, for every shape of the orders table
SpecOrders == InitOrders /\ [][OrderNext \/ PriceNext \/ UploadNext]_vars
\* the order ledger over the orders table initializeDatabase creates
SpecLedger == InitCart /\ [][OrderNext \/ PriceNext \/ UploadNext]_vars

\* ------------------------------------------------------------------ claims
RECURSIVE SumOver(_, _)
SumOver(f, S) ==
  IF S = {} THEN 0
  ELSE LET x == CHOOSE y \in S : TRUE IN f[x] + SumOver(f, S \ {x})

\* the units of classId in a cart
UnitsOf(lines, classId) ==
  SumOver([i \in DOMAIN lines |-> lines[i].quantity],
          {i \in DOMAIN lines : lines[i].classId = classId})
\* quantity x current price over the products that exist and have a price
LiveTotal(s) ==
  LET priced == {c \in DOMAIN classes : IsNumber(classes[c].class_price)} IN
  SumOver([c \in priced |-> classes[c].class_price * UnitsOf(CartOf(session[s]), c)],
          priced)
LiveUnits(s) ==
  SumOver([c \in DOMAIN classes |-> UnitsOf(CartOf(session[s]), c)], DOMAIN classes)

\* C1: what get(orderId) and list() return for an accepted order (items,
\* knownTotal, totalItems) is what was submitted, whatever catalog operations
\* (update, delete, delete-all, bulk upload) have run since
C1_SnapshotFrozen ==
  \A o \in DOMAIN accepted :
    LET sent == accepted[o]
        same(b) == /\ b.items = sent.items.val
                   /\ b.knownTotal = sent.knownTotal
                   /\ b.totalItems = IF sent.totalItems = Undefined THEN 0
                                     ELSE sent.totalItems
        listed == ListBody(orders, columnNames)
    IN /\ RowsWithOrderId(orders, o) # {}
       /\ \A r \in RowsWithOrderId(orders, o) : same(OrderBody(orders[r], columnNames))
       /\ \E i \in DOMAIN listed : listed[i].orderId = o /\ same(listed[i])

\* an order read back after a product it references was re-priced
C1_Witness ==
  /\ res.op = "get" /\ res.status = 200
  /\ \E i \in DOMAIN res.body.items :
       LET c == res.body.items[i].classId IN
         /\ c \in DOMAIN classes
         /\ classes[c].updated_at > res.body.createdAt
         /\ classes[c].class_price # res.body.items[i].classPrice

\* a body the ledger stores when its orderId is new
Storable(b) ==
  /\ b.items.kind = "array" /\ TruthyNum(b.orderId) /\ b.customerInfo.defined
  /\ IsNumber(b.knownTotal) /\ "items" \in columnNames
UniqueOrderIds ==
  \A r1, r2 \in DOMAIN orders : orders[r1].order_id = orders[r2].order_id => r1 = r2

\* C2: a submit whose orderId is already in the ledger leaves the ledger as it
\* is and, for an otherwise storable order, answers 409; no two rows ever share
\* an orderId
C2_DuplicateRejected ==
  [][/\ \* a step that is a submit: it answers 201, 400, 409 or 500 and leaves
        \* the catalog as it is
        (res'.status \in {201, 400, 409, 500} /\ classes' = classes)
          => \A b \in OrderPayloads :
               (RowsWithOrderId(orders, b.orderId) # {} /\ SubmitOrder(b))
                 => /\ orders' = orders
                    /\ Storable(b) => res'.status = 409
     /\ UniqueOrderIds']_vars

C2_Witness ==
  /\ res.status = 409
  /\ orders # <<>>

\* C3: the knownTotal of view() is the sum of quantity x current price over
\* the lines whose product exists with a price, not the cached cartTotal
C3_KnownTotalLive ==
  /\ \A s \in Sessions : CartView(session[s], classes).knownTotal = LiveTotal(s)
  /\ res.op = "view" => res.body = CartView(session[res.session], classes)

\* a view answered while the cached total of the session is stale
C3_Witness ==
  /\ res.op = "view"
  /\ res.body.knownTotal > 0
  /\ session[res.session].cartTotal # res.body.knownTotal

\* C4: a successful update appends one entry (old, new) when it changes the
\* price, and none when it does not
C4_PriceChangeRecorded ==
  [][\A id \in ClassIds, p \in UpdatePayloads, f \in BOOLEAN :
       (UpdateClass(id, p, f) /\ res'.status = 200)
         => price_history' =
              IF classes'[id].class_price # classes[id].class_price
              THEN Append(price_history,
                          HistoryEntry(id, classes[id].class_price,
                                       classes'[id].class_price))
              ELSE price_history]_vars

C6_DeletedProductDropped ==
  /\ res.op = "view" => res.status = 200
  /\ \A s \in Sessions :
       LET v == CartView(session[s], classes) IN
         /\ \A i \in DOMAIN v.items : v.items[i].id \in DOMAIN classes
         /\ v.totalItems = LiveUnits(s)
         /\ v.knownTotal = LiveTotal(s)

\* a view answered for a cart holding a line whose product was deleted
C6_Witness ==
  /\ res.op = "view" /\ res.status = 200
  /\ \E i \in DOMAIN CartOf(session[res.session]) :
       LET c == CartOf(session[res.session])[i].classId IN
         c \notin DOMAIN classes /\ c < nextClassId
  /\ Len(res.body.items) < Len(CartOf(session[res.session]))
  /\ res.body.items # <<>>

\* C7: a submit with items = [] answers 400 and stores nothing
C7_EmptyItemsRejected ==
  [][\A b \in OrderPayloads :
       (SubmitOrder(b) /\ b.items = ArrayOf(<<>>))
         => res'.status = 400 /\ orders' = orders]_vars

\* C8: a submit stores an order only if orderId is present, fullName is
\* present and non-empty and knownTotal is a non-negative number; any other
\* payload answers 400 and leaves the ledger unchanged
RequiredFieldsValid(b) ==
  /\ TruthyNum(b.orderId)
  /\ b.customerInfo.defined /\ TruthyStr(b.customerInfo.fullName)
  /\ IsNumber(b.knownTotal) /\ b.knownTotal >= 0
C8_RequiredFieldsChecked ==
  [][\A b \in OrderPayloads :
       (SubmitOrder(b) /\ ~RequiredFieldsValid(b))
         => res'.status = 400 /\ orders' = orders]_vars

\* C9: a successful update leaves every column whose field the payload omits
\* as it was, and every other row as it was; only updated_at is refreshed
ColumnOf ==
  [specialId |-> "special_id", mainCategory |-> "main_category",
   quality |-> "quality", className |-> "class_name",
   classNameArabic |-> "class_name_ar", classNameEnglish |-> "class_name_en",
   classFeatures |-> "class_features", classPrice |-> "class_price",
   classWeight |-> "class_weight"]
Omitted(p, f) ==
  IF f \in {"classPrice", "classWeight"} THEN p[f] = Undefined
  ELSE p[f] = UndefinedStr
C9_OmittedFieldsKept ==
  [][\A id \in ClassIds :
       LET others == /\ DOMAIN classes' = DOMAIN classes
                     /\ \A j \in DOMAIN classes \ {id} : classes'[j] = classes[j]
       IN (res' = Respond(200) /\ id \in DOMAIN classes /\ others)
            => \A r \in UpdateRequests :
                 LET p == r[1]
                     file == r[2]
                 IN UpdateClass(id, p, file)
                      => /\ \A f \in DOMAIN ColumnOf :
                              Omitted(p, f)
                                => classes'[id][ColumnOf[f]] = classes[id][ColumnOf[f]]
                         /\ (~file /\ Omitted(p, "classVideoUrl"))
                              => classes'[id].class_video = classes[id].class_video
                         /\ classes'[id].created_at = classes[id].created_at
                         /\ classes'[id].updated_at = clock'
                         /\ others]_vars

\* a row an update has just written that still holds a name, a price and a
\* video, of which its payload omitted at least one
C9_Witness ==
  /\ res.status = 200
  /\ \E id \in DOMAIN classes :
       /\ classes[id].class_name = "b"
       /\ classes[id].updated_at = clock
       /\ classes[id].updated_at > classes[id].created_at
       /\ IsNumber(classes[id].class_price)
       /\ classes[id].class_video # NullStr

C11_AddInsertsOrIncrements ==
  [][\A s \in Sessions, c \in ClassIds :
       AddToCart(s, c)
         => LET old == CartOf(session[s])
                new == CartOf(session'[s])
            IN /\ res'.status = 200
               /\ UnitsOf(new, c) = UnitsOf(old, c) + 1
               /\ Cardinality({i \in DOMAIN new : new[i].classId = c}) = 1
               /\ IF HasLine(old, c)
                  THEN /\ Len(new) = Len(old)
                       /\ \A i \in DOMAIN old :
                            old[i].classId # c => new[i] = old[i]
                  ELSE /\ new = Append(old, Line(c, 1))]_vars

\* a cart that add has given a second line and then a second unit of it
C11_Witness ==
  /\ res = Respond(200)
  /\ \E s \in Sessions : CartOf(session[s]) = <<Line(2, 1), Line(1, 2)>>

\* C12: setQuantity(classId, q) with q <= 0 leaves the cart remove(classId)
\* leaves and succeeds as remove does, also when the cart has no line for
\* classId
C12_NonPositiveQuantityRemoves ==
  [][\A s \in Sessions, c \in ClassIds, q \in {-1, 0} :
       SetQuantity(s, c, q)
         => /\ CartOf(session'[s]) = RemovedLines(CartOf(session[s]), c)
            /\ res'.status = 200]_vars

\* C13: setQuantity(classId, q) with q > 0 on a cart without a line for
\* classId answers 404, creates no line and leaves every line as it is
C13_MissingLineNotFound ==
  [][\A s \in Sessions, c \in ClassIds, q \in 1..MaxQty :
       (~HasLine(CartOf(session[s]), c) /\ SetQuantity(s, c, q))
         => /\ res'.status = 404
            /\ CartOf(session'[s]) = CartOf(session[s])]_vars

\* the 404 of setQuantity answered for a cart that holds another line
C13_Witness ==
  /\ res = NotInCart
  /\ \E s \in Sessions : Len(CartOf(session[s])) = 1


\* C14: a cart operation of one session leaves the cart of every other
\* session as it is, and what view answers to a session is made of that
\* session's own lines and the catalog alone
C14_SessionsIsolated ==
  [][\A s \in Sessions :
       ((session' # session \/ res'.op = "view") /\ CartNext({s}))
         => /\ \A t \in Sessions \ {s} : session'[t] = session[t]
            /\ ViewCart(s)
                 => LET own == SelectSeq(CartOf(session[s]),
                                         LAMBDA l : l.classId \in DOMAIN classes)
                    IN /\ Len(res'.body.items) = Len(own)
                       /\ \A i \in DOMAIN own :
                            /\ res'.body.items[i].id = own[i].classId
                            /\ res'.body.items[i].quantity = own[i].quantity
                       /\ res'.body.totalItems =
                            SumOver([c \in ClassIds |-> UnitsOf(own, c)], ClassIds)]_vars

\* session B is shown its one line while session A holds two other lines
C14_Witness ==
  /\ res.op = "view"
  /\ res.session = "B"
  /\ res.body.totalItems = 1
  /\ CartOf(session["B"]) = <<Line(1, 1)>>
  /\ CartOf(session["A"]) = <<Line(2, 1), Line(1, 2)>>


\* C20: a create whose special id an existing class already holds is answered
\* with the conflict status 409, not with the status of a storage failure,
\* and leaves the catalog as it is
C20_DuplicateSpecialIdConflict ==
  [][\A p \in CreatePayloads, f \in BOOLEAN :
       ( /\ TruthyStr(p.className)
         /\ SpecialIdTaken(classes, 0,
                           InsertedRow(classes, p, f, clock + 1).special_id)
         /\ CreateClass(p, f) )
         => /\ res'.status = 409
            /\ classes' = classes]_vars


\* the bulk upload has nothing left to do: no lookup is queued and no
\* statement is pending
Quiescent(up) == up.active /\ up.queue = <<>> /\ up.running = {}
SkippedFor(up, k, reason) ==
  \E i \in DOMAIN up.skipped : up.skipped[i] = SkipEntry(k, reason)
\* row k reached the store and the store did not fail on it
Good(up, k) ==
  /\ Reaches(up.rows[k])
  /\ ~SkippedFor(up, k, LookupFailed)
  /\ ~SkippedFor(up, k, StatementFailed)
RowsOf(up, sid) == {k \in DOMAIN up.rows : up.rows[k].parsed.specialId = sid}
Holding(rows, sid) == {i \in DOMAIN rows : rows[i].special_id = sid}

\* C15: a bulk-upload row whose special id the catalog does not hold is, with
\* updateOnly, reported as skipped while the catalog gains no record of that
\* special id; without updateOnly the row creates exactly one record of it
C15_UpdateOnlySkipsNew ==
  Quiescent(upload) =>
    \A k \in DOMAIN upload.rows :
      LET sid == upload.rows[k].parsed.specialId IN
      ( /\ Good(upload, k)
        /\ Holding(upload.before, sid) = {}
        /\ \A j \in 1..(k - 1) : ~(Good(upload, j) /\ j \in RowsOf(upload, sid)) )
        => IF upload.updateOnly
           THEN /\ SkippedFor(upload, k, UpdateOnlyNotFound)
                /\ Holding(classes, sid) = {}
                /\ DOMAIN classes = DOMAIN upload.before
           ELSE /\ Cardinality(Holding(classes, sid)) = 1
                /\ Holding(classes, sid) \cap DOMAIN upload.before = {}
                /\ \E i \in DOMAIN upload.processed :
                     upload.processed[i] = [parsed |-> upload.rows[k].parsed,
                                            action |-> "created"]
                /\ \A r \in {UpdateOnlyNotFound, UniqueFailed} :
                     ~SkippedFor(upload, k, r)

\* an update-only upload of one row the catalog does not know has answered
C15_Witness ==
  /\ upload.responded
  /\ upload.updateOnly
  /\ upload.rows = <<Parsed(BulkRecord("CR03", 10))>>
  /\ res = [op |-> "bulk", status |-> 200, processedCount |-> 0, skippedCount |-> 1,
            skipped |-> <<SkipEntry(1, UpdateOnlyNotFound)>>]
  /\ Holding(classes, "CR03") = {}

\* the catalog after the rows 1..k, the rows in `bad` left out, have been
\* looked up and upserted one after the other
UpsertedInOrder(cat, record, updateOnly, now) ==
  LET blank == ClassRow("", "", "", "", NullStr, NullStr, NullStr, Null, Null,
                        NullStr, now)
  IN IF Holding(cat.classes, record.specialId) # {}
     THEN [cat EXCEPT !.classes =
             [i \in DOMAIN cat.classes |->
                IF cat.classes[i].special_id = record.specialId
                THEN BulkRow(cat.classes[i], record, now) ELSE cat.classes[i]]]
     ELSE IF updateOnly THEN cat
     ELSE [classes |-> [i \in DOMAIN cat.classes \cup {cat.next} |->
                          IF i = cat.next THEN BulkRow(blank, record, now)
                          ELSE cat.classes[i]],
           next |-> cat.next + 1]
RECURSIVE RowsApplied(_, _, _, _, _, _)
RowsApplied(k, rows, bad, updateOnly, cat, now) ==
  IF k = 0 THEN cat
  ELSE LET prev == RowsApplied(k - 1, rows, bad, updateOnly, cat, now)
       IN IF k \in bad THEN prev
          ELSE UpsertedInOrder(prev, rows[k].parsed, updateOnly, now)

\* C16: in a bulk upload every row that cannot be processed (no special id,
\* an exception while parsing, a failure in the store) is in the skipped list
\* with a reason, and the other rows are looked up and upserted as if that row
\* were not in the sheet
C16_BadRowSkippedOnly ==
  upload.active =>
    LET bad == {k \in DOMAIN upload.rows : ~Good(upload, k)}
        found == [classes |-> upload.before,
                  next |-> nextClassId - Cardinality(DOMAIN classes \ DOMAIN upload.before)]
    IN /\ \A k \in DOMAIN upload.rows :
            ~Reaches(upload.rows[k])
              => \E i \in DOMAIN upload.skipped :
                   /\ upload.skipped[i].index = k + 1
                   /\ upload.skipped[i].reason \in {SpecialIdRequired, ParseFailed}
       /\ Quiescent(upload)
            => /\ classes = RowsApplied(Len(upload.rows), upload.rows, bad,
                                        upload.updateOnly, found, clock).classes
               /\ Len(upload.processed) + Len(upload.skipped) = Len(upload.rows)
               /\ \A k \in bad : \E i \in DOMAIN upload.skipped :
                    upload.skipped[i].index = k + 1

\* a row without special id came first and the row after it was created
C16_Witness ==
  /\ upload.responded
  /\ ~upload.rows[1].throws
  /\ upload.rows[1].parsed.specialId = ""
  /\ res.op = "bulk"
  /\ res.processedCount = 1
  /\ res.skipped = <<SkipEntry(1, SpecialIdRequired)>>
  /\ Holding(classes, "CR03") # {}
  /\ Holding(upload.before, "CR03") = {}

\* C17: every bulk upload over a sheet that has rows is answered in the end
\* with its report
C17_UploadAnswered ==
  upload.active ~> (upload.responded /\ res.op = "bulk")

\* C18: a bulk-upload row that matches a record leaves every column the row
\* has no value for as the record had it
C18_BulkUpdateKeepsUnset ==
  [][\A i \in DOMAIN classes, st \in upload.running :
       ( /\ i \in DOMAIN classes'
         /\ classes'[i] # classes[i]
         /\ st \notin upload'.running )
         => LET record == upload.rows[st.row].parsed IN
            /\ record.classNameArabic = "" => classes'[i].class_name_ar = classes[i].class_name_ar
            /\ record.classNameEnglish = "" => classes'[i].class_name_en = classes[i].class_name_en
            /\ record.classFeatures = "" => classes'[i].class_features = classes[i].class_features
            /\ record.classWeight = Null => classes'[i].class_weight = classes[i].class_weight
            /\ record.classVideo = NullStr => classes'[i].class_video = classes[i].class_video]_vars

\* C19: two rows of one sheet with the same special id are taken in sheet
\* order, the lookup of the later row coming after the statement of the
\* earlier one has finished; the report and the record are those of the rows
\* applied one after the other
C19_SameIdRowsInOrder ==
  [][/\ (upload.queue # <<>> /\ upload.active /\ upload'.queue = Tail(upload.queue))
          => \A st \in upload.running :
               upload.rows[st.row].parsed.specialId
                 # upload.rows[Head(upload.queue)].parsed.specialId
     /\ (upload'.responded /\ ~upload.responded)
          => \A sid \in {upload.rows[k].parsed.specialId : k \in DOMAIN upload.rows} :
               LET good == SelectSeq([k \in DOMAIN upload.rows |-> k],
                             LAMBDA k : Good(upload', k) /\ k \in RowsOf(upload, sid))
                   known == Holding(upload.before, sid) # {}
                   done == SelectSeq(upload'.processed,
                                     LAMBDA e : e.parsed.specialId = sid)
               IN IF ~known /\ upload.updateOnly
                  THEN done = <<>> /\ Holding(classes', sid) = {}
                  ELSE /\ done = [n \in DOMAIN good |->
                                    [parsed |-> upload.rows[good[n]].parsed,
                                     action |-> IF known \/ n > 1 THEN "updated"
                                                ELSE "created"]]
                       /\ good # <<>>
                            => \A i \in Holding(classes', sid) :
                                 classes'[i].class_price =
                                   upload.rows[good[Len(good)]].parsed.classPrice]_vars

\* two rows with the same new special id: the first was created, the second
\* updated it
C19_Witness ==
  /\ upload.responded
  /\ upload.rows = <<Parsed(BulkRecord("CR03", 10)), Parsed(BulkRecord("CR03", 12))>>
  /\ res.op = "bulk"
  /\ res.processedCount = 2
  /\ \E i \in DOMAIN classes :
       classes[i].special_id = "CR03" /\ classes[i].class_price = 12


\* C29: a cart request answered 400 or 404 leaves the lines of the session's
\* cart, and their quantities, as they were
C29_RejectedRequestKeepsCart ==
  [][\A s \in Sessions :
       (res'.status \in {400, 404} /\ CartNext({s}))
         => CartOf(session'[s]) = CartOf(session[s])]_vars

\* a request was answered 400 while the cart held two lines
C29_Witness ==
  /\ res = Respond(400)
  /\ CartOf(session["A"]) = <<Line(1, 1), Line(2, 2)>>


\* C28: the bulk upload answers at most once, when no row is left to look up
\* or to store, and its report counts every row of the sheet once:
\* processedCount + skippedCount is the number of rows and skipped has
\* skippedCount entries
C28_ReportCountsEveryRow ==
  [][(upload' # upload /\ upload'.responded)
       => /\ ~upload.responded
          /\ Quiescent(upload')
          /\ res'.op = "bulk"
          /\ res'.processedCount + res'.skippedCount = Len(upload'.rows)
          /\ Len(res'.skipped) = res'.skippedCount
          /\ \A k \in DOMAIN upload'.rows :
               Cardinality({i \in DOMAIN res'.skipped : res'.skipped[i].index = k + 1})
                 + Cardinality({i \in DOMAIN upload'.processed :
                                  upload'.processed[i].parsed = upload'.rows[k].parsed
                                    /\ ~upload'.rows[k].throws})
                 >= 1]_vars

\* a two-row sheet was answered: one row stored, the other failed in the store
C28_Witness ==
  /\ upload.responded
  /\ Len(upload.rows) = 2
  /\ res.op = "bulk"
  /\ res.processedCount = 1
  /\ res.skippedCount = 1
  /\ res.skipped[1].reason = StatementFailed


\* C23: no two classes hold the same special id, and the lookup of a class
\* by special id, which compares in lower case, matches at most one class
C23_SpecialIdLookupUnique ==
  /\ \A i, j \in DOMAIN classes :
       (i # j /\ classes[i].special_id # NullStr)
         => classes[i].special_id # classes[j].special_id
  /\ \A identifier \in {"CR01", "cr01", "CR02", "CR03"} :
       Cardinality(MatchesIdentifier(classes, identifier)) <= 1


\* C27: whichever item columns the orders table has (items, items_json or
\* both), a well-formed order with a new orderId is stored and answered 201
\* with the items it carried, and get and list answer 200
C27_EveryTableShapeServes ==
  [][/\ (res'.status \in {201, 400, 409, 500} /\ classes' = classes)
          => \A b \in OrderPayloads :
               ( /\ b.items.kind = "array" /\ TruthyNum(b.orderId)
                 /\ b.customerInfo.defined /\ IsNumber(b.knownTotal)
                 /\ RowsWithOrderId(orders, b.orderId) = {}
                 /\ SubmitOrder(b) )
                 => /\ res'.status = 201
                    /\ res'.body.items = b.items.val
     /\ res'.op = "list" => res'.status = 200
     /\ (res'.op = "get" /\ \E o \in OrderIds : GetOrder(o)) => res'.status = 200]_vars


\* the columns of a row, the time of its last write left aside
Content(row) == [row EXCEPT !.updated_at = 0]

\* C21: when two update requests on the same class have both been answered,
\* the class is as if the two partial updates had been applied one after the
\* other, in one order or the other
C21_ConcurrentUpdatesSerial ==
  \A id \in DOMAIN classes :
    ( /\ \A r \in Requests : updates[r].state = "done" /\ updates[r].id = id )
      => LET p == updates["r1"].payload
             q == updates["r2"].payload
             was == updates["r1"].current
             first == updates["r2"].current
             \* the row before both requests: the row read by a request that
             \* read before any write
             orig == IF was.updated_at <= first.updated_at THEN was ELSE first
         IN Content(classes[id]) \in
              {Content(UpdatedRow(UpdatedRow(orig, p, FALSE, 0), q, FALSE, 0)),
               Content(UpdatedRow(UpdatedRow(orig, q, FALSE, 0), p, FALSE, 0))}


\* C22: delete(id) and deleteAll() remove the record(s) and answer with success
\* whatever becomes of the video files they hand to fs.unlink: when an unlink
\* ends, in failure or not, the table and the response sent stay as they are,
\* so a failed file deletion neither turns the deletion into an error nor
\* brings a record back
C22_DeleteSucceedsDespiteUnlink ==
  [][/\ \A id \in DOMAIN classes :
          DeleteClass(id) => res'.status = 204 /\ id \notin DOMAIN classes'
     /\ DeleteAllClasses => res'.status = 200 /\ DOMAIN classes' = {}
     /\ \A name \in VideoNames, err \in BOOLEAN :
          UnlinkDone(name, err) => classes' = classes /\ res' = res]_vars
\* class 2 was deleted with its video, the unlink has ended in failure (the
\* file is still there) and the answer is still the 204
C22_Witness ==
  /\ clock = 0
  /\ 2 \notin DOMAIN classes
  /\ "v1.mp4" \in uploadsDir.files
  /\ "v1.mp4" \notin uploadsDir.unlinking
  /\ res = Respond(204)

\* the migration ended without a statement failing, the RENAME COLUMN of an
\* SQLite that lacks it left aside
Migrated == migration.pc = "over"
              /\ migration.outcome \in {"kept", "copied", "renamed", "rebuilt", "added"}
Present(text) == text # NoColumn /\ text # NullText
\* the columns of an order row other than the two item columns
Order(row) == [row EXCEPT !.items = NoColumn, !.items_json = NoColumn]
VisibilityMaps ==
  {visibility.shown, visibility.stored} \cup visibility.requests \cup visibility.responses
\* C24: whatever columns are toggled, also while earlier updates are pending,
\* every visibility map submitted or stored keeps a column set to true, and a
\* toggle that would hide the last visible column changes nothing
C24_OneColumnStaysVisible ==
  /\ [](\A map \in VisibilityMaps : activeColumnCount(map) >= 1)
  /\ [][\A key \in ColumnKeys :
         ( /\ handleToggleColumn(key)
           /\ visibility.shown[key]
           /\ activeColumnCount(visibility.shown) <= 1 )
           => visibility' = visibility]_vars
\* two toggles were made on the same screen, the second while the update of
\* the first was pending, and the server has stored a map with one column
C24_Witness ==
  /\ activeColumnCount(visibility.stored) = 1
  /\ visibility.shown = defaultColumnVisibility
  /\ visibility.responses # {}
  /\ \E map \in visibility.requests : map # visibility.stored

\* the sync requests that have been sent and have not come back
SyncsInFlight == panel.inFlight + panel.detached
\* C25: at most one sync from the sheet is in flight at any time
C25_OneSyncInFlight == SyncsInFlight <= 1

\* C26: while auto-sync stays enabled and the URL stays the same, a sync starts
\* only on an interval tick (or by the manual buttons): a sync that comes back
\* starts no other
C26_SyncOnlyOnEnableOrTick ==
  [][/\ SettleSync => panel'.started = panel.started
     /\ ( /\ panel.mounted /\ panel'.mounted
          /\ panel.googleSheetsAutoSync /\ panel'.googleSheetsAutoSync
          /\ panel'.googleSheetsUrl = panel.googleSheetsUrl
          /\ panel'.started > panel.started )
          => Tick \/ ClickSync]_vars

====
